---- MODULE Spec2Model ----
(***************************************************************************)
(* Model of the context-management and branching subsystem of aiadvent:    *)
(* Agent (agent.py), the interactive loop (cli.py), BranchingManager       *)
(* (branching.py), ContextCompressor (context_compressor.py),              *)
(* StickyFactsManager (sticky_facts.py) and the SQLite HistoryManager      *)
(* (history.py).                                                           *)
(*                                                                         *)
(* A text is a sequence of tokens (strings); TokenCounter.count_message is *)
(* the length of that sequence.  A message is [role, content].  A table of *)
(* the store is the sequence of its rows in insertion (rowid) order.       *)
(***************************************************************************)
EXTENDS Integers, Sequences, FiniteSets, TLC

(* ------------------------------ bounds -------------------------------- *)
\* turns one session may start: under the branching strategy, where every
\* branch keeps its own transcript, and under the other strategies
MaxBranchingTurns == 1
MaxTurns == 3
\* checkpoints / branches one BranchingManager may create
MaxCheckpoints == 2
MaxBranches == 2

VARIABLES
    \* Agent
    strategy, compression_enabled, model, system_prompt, messages, session_id,
    pc,
    \* ContextCompressor
    recent_window_size, summary_batch_size, summaries,
    original_tokens, compressed_tokens, tokens_saved,
    \* StickyFactsManager
    facts,
    \* BranchingManager
    checkpoints, branches, current_branch, checkpoint_counter, branch_counter,
    branch_saved_count,
    \* HistoryManager tables
    db_sessions, db_session_seq, db_messages, db_sticky_facts, db_checkpoints,
    db_branches, db_branch_messages,
    \* observation of the run: the last operation and what it returned, the
    \* completion-service calls made so far, the state when the turn in
    \* flight started, the transcript each checkpoint was created on and the
    \* live transcript as it was while each branch was last current
    \* the number of turns started and the message list last prepared for
    \* the completion service
    last, summarize_calls, snap, cp_source, branch_live, turn_count, submission,
    \* the group-of-experts mode (strategies/strategy_4.py): the future of
    \* each expert call, what the console has shown, the TokenTracker, and
    \* for every turn the usage each expert call returned
    futures, console, tracker, expert_calls

agentVars == <<strategy, compression_enabled, model, system_prompt, messages,
              session_id, pc>>
compVars == <<recent_window_size, summary_batch_size, summaries,
              original_tokens, compressed_tokens, tokens_saved>>
bmVars == <<checkpoints, branches, current_branch, checkpoint_counter,
            branch_counter, branch_saved_count>>
dbVars == <<db_sessions, db_session_seq, db_messages, db_sticky_facts, db_checkpoints,
            db_branches, db_branch_messages>>
obsVars == <<last, summarize_calls, snap, cp_source, branch_live, turn_count,
            submission>>
expertVars == <<futures, console, tracker, expert_calls>>
vars == <<agentVars, compVars, facts, bmVars, dbVars, obsVars, expertVars>>

(* ------------------------------ messages ------------------------------ *)
\* cli.py line 143: the system prompt the CLI constructs the Agent with
SystemPrompt ==
    IF strategy = "branching"
    THEN <<"You are a helpful AI assistant using a Branching Dialogue strategy.">>
    ELSE <<"You are a helpful AI assistant.">>
\* cli.py line 142: the model the CLI constructs the Agent with
DefaultModel == "gpt-4o-mini"
\* system_prompt = None
NoPrompt == <<>>
\* the texts a user may type and the replies the completion service may stream
UserTexts == {<<"u1">>, <<"u2", "more">>}
ReplyTexts == {<<"r1">>}

Msg(role, content) == [role |-> role, content |-> content]

\* no system message whatever the prompt
PromptMessages_none(sp) == <<>>

\* Agent.__init__, lines 45-49: the system message is added when a prompt
\* was given
PromptMessages(sp) == IF sp # NoPrompt THEN <<Msg("system", sp)>> ELSE <<>>

\* Agent.__init__: the transcript starts with the system prompt
InitialMessages == <<Msg("system", SystemPrompt)>>

\* TokenCounter.count_message: the number of tokens of a text
count_message(content) == Len(content)

RECURSIVE SumContent(_)
SumContent(ms) ==
    IF ms = <<>> THEN 0
    ELSE count_message(Head(ms).content) + 4 + SumContent(Tail(ms))

\* the count without the overhead of the list
count_messages_no_list_overhead(ms) == SumContent(ms)

\* TokenCounter.count_messages: content tokens + 4 per message + 2
count_messages(ms) == SumContent(ms) + 2

\* the first n elements of s (Python s[:n], n >= 0)
Take(s, n) == SubSeq(s, 1, IF n < Len(s) THEN n ELSE Len(s))

\* the last n elements of s (Python s[-n:], n > 0)
LastN(s, n) == IF n >= Len(s) THEN s ELSE SubSeq(s, Len(s) - n + 1, Len(s))

\* Python [m for m in s if keep(m)]
RECURSIVE SelectSeqRole(_, _)
SelectSeqRole(s, wantSystem) ==
    IF s = <<>> THEN <<>>
    ELSE IF (Head(s).role = "system") = wantSystem
         THEN <<Head(s)>> \o SelectSeqRole(Tail(s), wantSystem)
         ELSE SelectSeqRole(Tail(s), wantSystem)

\* the whitespace tokens
IsSpace(t) == t \in {"\n", " "}

\* str.strip()
RECURSIVE LStrip(_)
LStrip(c) == IF c # <<>> /\ IsSpace(Head(c)) THEN LStrip(Tail(c)) ELSE c
RECURSIVE RStrip(_)
RStrip(c) ==
    IF c # <<>> /\ IsSpace(c[Len(c)]) THEN RStrip(SubSeq(c, 1, Len(c) - 1)) ELSE c
Strip(c) == RStrip(LStrip(c))

(* --------------------------- HistoryManager --------------------------- *)
\* save_checkpoint: INSERT INTO checkpoints
save_checkpoint(tbl, sid, cp, idx) ==
    Append(tbl, [session_id |-> sid, checkpoint_id |-> cp, message_index |-> idx])

\* save_branch: deactivate the session's branches when is_active, then INSERT
save_branch(tbl, sid, b, cp, active) ==
    LET cleared == IF active
                   THEN [i \in DOMAIN tbl |->
                            IF tbl[i].session_id = sid
                            THEN [tbl[i] EXCEPT !.is_active = FALSE] ELSE tbl[i]]
                   ELSE tbl
    IN  Append(cleared, [session_id |-> sid, branch_id |-> b,
                         checkpoint_id |-> cp, is_active |-> active])

\* set_active_branch without the UPDATE that clears is_active on the other
\* rows of the session
set_active_branch_keep_others(tbl, sid, b) ==
    [i \in DOMAIN tbl |->
        IF tbl[i].session_id = sid /\ tbl[i].branch_id = b
        THEN [tbl[i] EXCEPT !.is_active = TRUE]
        ELSE tbl[i]]

\* set_active_branch: UPDATE ... is_active = 0 for the session, then
\* is_active = 1 for the row (session, branch)
set_active_branch(tbl, sid, b) ==
    [i \in DOMAIN tbl |->
        IF tbl[i].session_id = sid
        THEN [tbl[i] EXCEPT !.is_active = (tbl[i].branch_id = b)]
        ELSE tbl[i]]

\* UNIQUE(branch_id, sequence) of branch_messages
BranchMessageConflict(tbl, b, seq) ==
    \E i \in DOMAIN tbl : tbl[i].branch_id = b /\ tbl[i].sequence = seq

\* save_branch_message: INSERT INTO branch_messages
save_branch_message(tbl, b, seq, role, content) ==
    Append(tbl, [branch_id |-> b, sequence |-> seq, role |-> role,
                 content |-> content])

\* load_branch_messages is ORDER BY sequence; rows of one branch are written
\* with increasing sequence, so rowid order is sequence order
BranchRows(tbl, b) == LET T(r) == r.branch_id = b IN SelectSeq(tbl, T)

\* save_message: next sequence = MAX(sequence) + 1 of the session, INSERT,
\* then the session's message_count and total_tokens are updated
SessionMessages(tbl, sid) == LET T(r) == r.session_id = sid IN SelectSeq(tbl, T)

\* the sequence taken from the row count of the whole table
NextSequence_all_rows(tbl, sid) == Len(tbl)

NextSequence(tbl, sid) ==
    LET rows == SessionMessages(tbl, sid)
    IN  IF rows = <<>> THEN 0
        ELSE (CHOOSE m \in {rows[i].sequence : i \in DOMAIN rows} :
                \A i \in DOMAIN rows : rows[i].sequence <= m) + 1

save_message_rows(tbl, sid, role, content, tokens) ==
    Append(tbl, [session_id |-> sid, sequence |-> NextSequence(tbl, sid),
                 role |-> role, content |-> content, token_count |-> tokens])

\* token_count = None
NoTokenCount == -1

\* save_message, line 154: token_count or 0
TokenOrZero(tokens) == IF tokens = NoTokenCount THEN 0 ELSE tokens

save_message_stats(sessions, sid, tokens) ==
    IF sid \in DOMAIN sessions
    THEN [sessions EXCEPT ![sid].message_count = @ + 1,
                          ![sid].total_tokens = @ + TokenOrZero(tokens)]
    ELSE sessions

\* load_session, lines 164-169: is there a row with this id
SessionExists(sid) == sid \in DOMAIN db_sessions

\* create_session: the row INSERTed into sessions; the counters take their
\* column defaults
SessionRow(st, m, sp) ==
    [strategy |-> st, model |-> m, system_prompt |-> sp, message_count |-> 0,
     total_tokens |-> 0]

(* -------------------------- ContextCompressor ------------------------- *)
\* ContextCompressor.__init__ defaults
DefaultWindow == 14
DefaultBatch == 14

\* the texts a summarization call may return
SummaryTexts == {<<"sA">>, <<"sB", "\n">>}
\* summarization calls one compress call may need in the model
MaxCallsPerCompress == 3
\* the answers of the calls of one compress call, by call number
SummaryReplies == {[i \in 1 .. MaxCallsPerCompress |-> t] : t \in SummaryTexts}

\* the short-transcript test with < in place of <=
IsShort_strict(conversation_messages, window) ==
    Len(conversation_messages) < window

\* compress, line 25: the short-transcript test
IsShort(conversation_messages, window) == Len(conversation_messages) <= window

\* compress, line 29: conversation_messages[:-recent_window_size]
old_messages(conversation_messages, window) ==
    Take(conversation_messages, Len(conversation_messages) - window)

\* compress, line 30: conversation_messages[-recent_window_size:]
recent_messages(conversation_messages, window) ==
    LastN(conversation_messages, window)

\* compress, line 42: how many more batches to summarize
batches_needed(old, sums, batch) == (Len(old) \div batch) - Len(sums)

\* _generate_summary, line 96: the stripped answer of the summarization call
generate_summary(reply) == Strip(reply)

\* what a completion-service call that raises (connection error, time-out,
\* API error) has in place of an answer
ApiError == <<"<api error>">>

\* no call of the completion service ever raises
summary_call_raises_never(reply) == FALSE

\* _generate_summary, lines 90-94: the call raises; nothing in
\* _generate_summary or compress catches the exception
summary_call_raises(reply) == reply = ApiError

\* compress, lines 43-49: the loop over range(batches_needed); acc carries
\* the summaries and the inputs of the calls made so far
RECURSIVE SummarizeBatches(_, _, _, _, _)
SummarizeBatches(acc, old, batch, remaining, replies) ==
    IF remaining <= 0 \/ acc.raised THEN acc
    ELSE LET start_idx == Len(acc.summaries) * batch
             end_idx == IF start_idx + batch < Len(old)
                        THEN start_idx + batch ELSE Len(old)
             b == SubSeq(old, start_idx + 1, end_idx)
             reply == replies[Len(acc.calls) + 1]
         IN  IF b # <<>>
             THEN IF summary_call_raises(reply)
                  THEN [summaries |-> acc.summaries,
                        calls |-> Append(acc.calls, b), raised |-> TRUE]
                  ELSE SummarizeBatches(
                           [summaries |-> Append(acc.summaries,
                                                 generate_summary(reply)),
                            calls |-> Append(acc.calls, b), raised |-> FALSE],
                           old, batch, remaining - 1, replies)
             ELSE SummarizeBatches(acc, old, batch, remaining - 1, replies)

\* compress, lines 37-49: the summaries after the call, the inputs of the
\* summarization calls it issued and whether one of them raised
Summarize(old, sums, batch, replies) ==
    IF old # <<>> /\ sums = <<>>
    THEN IF summary_call_raises(replies[1])
         THEN [summaries |-> sums, calls |-> <<old>>, raised |-> TRUE]
         ELSE [summaries |-> <<generate_summary(replies[1])>>, calls |-> <<old>>,
               raised |-> FALSE]
    ELSE IF Len(old) > Len(sums) * batch
         THEN SummarizeBatches([summaries |-> sums, calls |-> <<>>,
                                raised |-> FALSE], old, batch,
                               batches_needed(old, sums, batch), replies)
         ELSE [summaries |-> sums, calls |-> <<>>, raised |-> FALSE]

\* " ".join(summaries)
RECURSIVE JoinSummaries(_)
JoinSummaries(sums) ==
    IF sums = <<>> THEN <<>>
    ELSE IF Len(sums) = 1 THEN Head(sums)
         ELSE Head(sums) \o <<" ">> \o JoinSummaries(Tail(sums))

\* compress, lines 55-60: the synthetic system message
SummaryMessage(sums) ==
    Msg("system", <<"Previous conversation summary:">> \o JoinSummaries(sums))

\* one synthetic system message per summary instead of one for all
RECURSIVE BuildCompressed_per_summary(_, _, _)
BuildCompressed_per_summary(system_messages, sums, recent) ==
    IF sums = <<>> THEN system_messages \o recent
    ELSE BuildCompressed_per_summary(
             Append(system_messages,
                    Msg("system", <<"Previous conversation summary:">>
                                      \o Head(sums))),
             Tail(sums), recent)

\* compress, lines 52-63: system messages, the summary message, the recent
\* messages
BuildCompressed(system_messages, sums, recent) ==
    system_messages
        \o (IF sums # <<>> THEN <<SummaryMessage(sums)>> ELSE <<>>)
        \o recent

\* ContextCompressor.compress as a function of the compressor's state: what it
\* returns, the summaries and statistics it leaves, the inputs of the
\* summarization calls it issued and whether it raised.  When a
\* summarization call raises, compress returns nothing (ret is not used):
\* original_tokens was set at line 33 and the summaries appended so far stay.
compress(msgs, sums, window, batch, stats, replies) ==
    LET system_messages == SelectSeqRole(msgs, TRUE)
        conversation_messages == SelectSeqRole(msgs, FALSE)
    IN  IF IsShort(conversation_messages, window)
        THEN [ret |-> msgs, summaries |-> sums, calls |-> <<>>, stats |-> stats,
              raised |-> FALSE]
        ELSE LET old == old_messages(conversation_messages, window)
                 recent == recent_messages(conversation_messages, window)
                 r == Summarize(old, sums, batch, replies)
                 compressed == BuildCompressed(system_messages, r.summaries, recent)
                 orig == count_messages(msgs)
                 comp == count_messages(compressed)
             IN  IF r.raised
                 THEN [ret |-> <<>>, summaries |-> r.summaries, calls |-> r.calls,
                       stats |-> [stats EXCEPT !.original_tokens = orig],
                       raised |-> TRUE]
                 ELSE [ret |-> compressed, summaries |-> r.summaries,
                       calls |-> r.calls,
                       stats |-> [original_tokens |-> orig,
                                  compressed_tokens |-> comp,
                                  tokens_saved |-> orig - comp],
                       raised |-> FALSE]

\* ContextCompressor.get_stats without the ratio: zeros while
\* original_tokens is 0, the three counters otherwise
get_stats(stats) ==
    IF stats.original_tokens = 0
    THEN [original |-> 0, compressed |-> 0, saved |-> 0]
    ELSE [original |-> stats.original_tokens,
          compressed |-> stats.compressed_tokens, saved |-> stats.tokens_saved]

(* ------------------------- StickyFactsManager ------------------------- *)
\* a parsed JSON value: the Fact Store is whatever json.loads returned.  A
\* dict is its set of <<category, key, value>> entries (key "" for a scalar,
\* value "" for null); a list is the set of <<"", "", element>>
Dict(items) == [kind |-> "dict", items |-> items]
EmptyFacts == Dict({})

\* the JSON documents the extraction call may answer with, by their text
JsonDocs ==
    [t \in {"{}", "{goal:g1}", "{goal:g1,constraints:null}",
            "{goal:g2,decisions:{db:sqlite}}", "{decisions:{db:sqlite}}", "null",
            "{constraints:null}", "[g1]"} |->
        CASE t = "{}" -> EmptyFacts
          [] t = "{constraints:null}" -> Dict({<<"constraints", "", "">>})
          [] t = "[g1]" -> [kind |-> "list", items |-> {<<"", "", "g1">>}]
          [] t = "{goal:g1}" -> Dict({<<"goal", "", "g1">>})
          [] t = "{goal:g1,constraints:null}" ->
                 Dict({<<"goal", "", "g1">>, <<"constraints", "", "">>})
          [] t = "{goal:g2,decisions:{db:sqlite}}" ->
                 Dict({<<"goal", "", "g2">>, <<"decisions", "db", "sqlite">>})
          [] t = "{decisions:{db:sqlite}}" ->
                 Dict({<<"decisions", "db", "sqlite">>})
          [] t = "null" -> [kind |-> "null", items |-> {}]]

\* the answers of the extraction call: bare JSON, JSON in a markdown fence
\* with and without the language tag, prose, a truncated document, an
\* unterminated fence, an empty answer
ExtractionResponses ==
    { <<"{goal:g1}">>,
      <<"<fence>", "json", "\n", "{goal:g2,decisions:{db:sqlite}}", "\n", "<fence>">>,
      <<"<fence>", "\n", "{decisions:{db:sqlite}}", "\n", "<fence>">>,
      <<"{goal:g1,constraints:null}">>,
      <<"{}">>,
      <<"null">>,
      <<"Here are the facts:", "{goal:g1}">>,
      <<"{goal:">>,
      <<"<fence>", "json", "\n", "{goal:">>,
      <<>> }

\* the text up to the next fence
RECURSIVE UpToFence(_)
UpToFence(c) ==
    IF c = <<>> \/ Head(c) = "<fence>" THEN <<>>
    ELSE <<Head(c)>> \o UpToFence(Tail(c))

\* extract_facts, lines 69-72: content.split(fence)[1] for a content that
\* starts with a fence, then a leading "json" removed
RemoveFence(content) ==
    IF content # <<>> /\ Head(content) = "<fence>"
    THEN LET inner == UpToFence(Tail(content))
         IN  IF inner # <<>> /\ Head(inner) = "json" THEN Tail(inner) ELSE inner
    ELSE content

\* json.loads: surrounding whitespace is skipped; exactly one document
json_loads(text) ==
    LET t == Strip(text)
    IN  IF Len(t) = 1 /\ t[1] \in DOMAIN JsonDocs
        THEN [ok |-> TRUE, value |-> JsonDocs[t[1]]]
        ELSE [ok |-> FALSE, value |-> EmptyFacts]

\* extract_facts, lines 16-26: is the extraction call issued at all
HasRecent(msgs) == Len(msgs) > 1 /\ SelectSeqRole(LastN(msgs, 6), FALSE) # <<>>

\* the store after the call when a failed parse empties it
facts_after_reset(store, response) ==
    LET parsed == json_loads(RemoveFence(Strip(response)))
    IN  IF parsed.ok THEN parsed.value ELSE EmptyFacts

\* extract_facts, lines 57-78: the store after the call answered response
facts_after(store, response) ==
    LET parsed == json_loads(RemoveFence(Strip(response)))
    IN  IF parsed.ok THEN parsed.value ELSE store

\* the categories in the order the extraction prompt lists them
Categories == <<"goal", "constraints", "preferences", "decisions", "agreements">>

\* the entries of one category with a value
CategoryItems(store, cat) == {e \in store.items : e[1] = cat /\ e[3] # ""}

\* the text of a category's value: the scalar, or the key and value of each
\* entry of a nested dict
RECURSIVE ValueText(_)
ValueText(items) ==
    IF items = {} THEN <<>>
    ELSE LET e == CHOOSE x \in items : TRUE
         IN  (IF e[2] = "" THEN <<e[3]>> ELSE <<e[2], e[3]>>)
                 \o ValueText(items \ {e})

\* get_facts_prompt, line 85: one "- category: value" line per category with
\* a value
RECURSIVE FactLines(_, _)
FactLines(store, cats) ==
    IF cats = <<>> THEN <<>>
    ELSE (IF CategoryItems(store, Head(cats)) # {}
          THEN <<"-", Head(cats), ":">>
                   \o ValueText(CategoryItems(store, Head(cats)))
          ELSE <<>>)
         \o FactLines(store, Tail(cats))

\* bool(self.facts): None, an empty dict and an empty list are false
Truthy(store) == store.kind # "null" /\ store.items # {}

\* get_facts_prompt, line 85: self.facts.items() raises AttributeError on a
\* store that is not a dict
facts_prompt_raises(store) == Truthy(store) /\ store.kind # "dict"

\* StickyFactsManager.get_facts_prompt where it returns
get_facts_prompt(store) ==
    IF ~Truthy(store) THEN <<>>
    ELSE <<"KEY FACTS FROM CONVERSATION:">> \o FactLines(store, Categories)

\* StickyFactsManager.extract_facts: the store it leaves and the calls issued
extract_facts(msgs, store, response) ==
    IF HasRecent(msgs)
    THEN [facts |-> facts_after(store, response), calls |-> 1,
          parsed |-> json_loads(RemoveFence(Strip(response))).ok]
    ELSE [facts |-> store, calls |-> 0, parsed |-> FALSE]

(* -------------------------- BranchingManager -------------------------- *)
\* current_branch = None
NoBranch == 0
\* Agent.session_id = None
NoSession == 0

\* d[k] = v on a Python dict
Put(d, k, v) == [x \in DOMAIN d \cup {k} |-> IF x = k THEN v ELSE d[x]]

\* counters stay below IdBase
IdBase == 10

\* the identifier "cp_<n>_<ms>" or "br_<n>_<ms>" built from the counter value
\* n at the millisecond ms (lines 22-23 and 43-44)
NewId(counter, ms) == counter + IdBase * ms

\* the millisecond of the first identifier of a session.  Where one manager
\* issues every identifier of its session, the counter alone tells them
\* apart and all are given this millisecond.
Epoch == 0

\* int(id.split("_")[1]) and int(id.split("_")[2])
CounterOf(id) == id % IdBase
StampOf(id) == id \div IdBase

\* create_checkpoint, line 24
message_index_of(msgs) == Len(msgs)

\* UNIQUE(session_id, checkpoint_id) of checkpoints
CheckpointConflict(tbl, sid, id) ==
    \E i \in DOMAIN tbl : tbl[i].session_id = sid /\ tbl[i].checkpoint_id = id

\* UNIQUE(session_id, branch_id) of branches
BranchConflict(tbl, sid, id) ==
    \E i \in DOMAIN tbl : tbl[i].session_id = sid /\ tbl[i].branch_id = id

\* does the INSERT of create_checkpoint at millisecond ms raise
CheckpointRaises(ms) ==
    /\ session_id # NoSession
    /\ CheckpointConflict(db_checkpoints, session_id,
                          NewId(checkpoint_counter + 1, ms))

\* does the INSERT of create_branch at millisecond ms raise
BranchRaises(cp, ms) ==
    /\ cp \in DOMAIN checkpoints
    /\ session_id # NoSession
    /\ BranchConflict(db_branches, session_id, NewId(branch_counter + 1, ms))

\* BranchingManager.create_checkpoint at millisecond ms; the dict is written
\* before the INSERT, which raises on a stored identifier
create_checkpoint(msgs, ms) ==
    LET id == NewId(checkpoint_counter + 1, ms)
        idx == message_index_of(msgs)
    IN  /\ checkpoint_counter' = checkpoint_counter + 1
        /\ checkpoints' = Put(checkpoints, id, [message_index |-> idx])
        /\ db_checkpoints' =
               IF session_id # NoSession /\ ~CheckpointRaises(ms)
               THEN save_checkpoint(db_checkpoints, session_id, id, idx)
               ELSE db_checkpoints
        /\ UNCHANGED <<expertVars, branches, current_branch, branch_counter, branch_saved_count>>

\* the branch starting from the whole base transcript
branch_messages_of_whole(base_messages, idx) == base_messages

\* create_branch, line 48: base_messages[:checkpoint["message_index"]].copy()
branch_messages_of(base_messages, idx) == Take(base_messages, idx)

\* create_branch taking the next branch number before it looks the
\* checkpoint up
create_branch_counts_first(cp, base_messages, ms) ==
    IF cp \notin DOMAIN checkpoints
    THEN /\ branch_counter' = branch_counter + 1
         /\ UNCHANGED <<expertVars, checkpoints, branches, current_branch, checkpoint_counter,
                        branch_saved_count, db_branches>>
    ELSE LET id == NewId(branch_counter + 1, ms)
         IN  /\ branch_counter' = branch_counter + 1
             /\ branches' = Put(branches, id,
                    [checkpoint_id |-> cp,
                     messages |-> branch_messages_of(base_messages,
                                      checkpoints[cp].message_index)])
             /\ branch_saved_count' = Put(branch_saved_count, id, 0)
             /\ db_branches' =
                    IF session_id # NoSession /\ ~BranchRaises(cp, ms)
                    THEN save_branch(db_branches, session_id, id, cp, FALSE)
                    ELSE db_branches
             /\ UNCHANGED <<expertVars, checkpoints, current_branch, checkpoint_counter>>

\* BranchingManager.create_branch at millisecond ms; an unknown checkpoint
\* returns None; the dicts are written before the INSERT, which raises on a
\* stored identifier
create_branch(cp, base_messages, ms) ==
    IF cp \notin DOMAIN checkpoints
    THEN UNCHANGED <<expertVars, bmVars, db_branches>>
    ELSE LET id == NewId(branch_counter + 1, ms)
         IN  /\ branch_counter' = branch_counter + 1
             /\ branches' = Put(branches, id,
                    [checkpoint_id |-> cp,
                     messages |-> branch_messages_of(base_messages,
                                      checkpoints[cp].message_index)])
             /\ branch_saved_count' = Put(branch_saved_count, id, 0)
             /\ db_branches' =
                    IF session_id # NoSession /\ ~BranchRaises(cp, ms)
                    THEN save_branch(db_branches, session_id, id, cp, FALSE)
                    ELSE db_branches
             /\ UNCHANGED <<expertVars, checkpoints, current_branch, checkpoint_counter>>

\* switch_branch moving the current-branch pointer before it looks the
\* branch up
switch_branch_points_first(b) ==
    /\ current_branch' = b
    /\ db_branches' =
           IF b \in DOMAIN branches /\ session_id # NoSession
           THEN set_active_branch(db_branches, session_id, b)
           ELSE db_branches
    /\ UNCHANGED <<expertVars, checkpoints, branches, checkpoint_counter, branch_counter,
                   branch_saved_count>>

\* BranchingManager.switch_branch; an unknown branch returns None
switch_branch(b) ==
    IF b \notin DOMAIN branches
    THEN UNCHANGED <<expertVars, bmVars, db_branches>>
    ELSE /\ current_branch' = b
         /\ db_branches' =
                IF session_id # NoSession
                THEN set_active_branch(db_branches, session_id, b)
                ELSE db_branches
         /\ UNCHANGED <<expertVars, checkpoints, branches, checkpoint_counter, branch_counter,
                        branch_saved_count>>

\* the loop over the new messages starting from the first message
first_new_index_zero(old_len) == 0

\* update_current_branch, line 94: range(old_len, len(messages)) starts here
first_new_index(old_len) == old_len

\* CHECK(role IN ('user', 'assistant')) and UNIQUE(branch_id, sequence)
InsertFails(tbl, b, seq, role) ==
    role \notin {"user", "assistant"} \/ BranchMessageConflict(tbl, b, seq)

\* no write of the call fails for a reason outside the tables
NoWriteError == 0

\* update_current_branch, lines 94-103: the loop over the new messages (i is
\* the 0-based index); a failing INSERT raises out of the loop.  fail_at is
\* the number, among the writes still to come, of the one the database
\* refuses for a reason of its own (locked or unwritable file); NoWriteError
\* when there is none.
RECURSIVE SaveNewMessages(_, _, _, _, _, _, _)
SaveNewMessages(tbl, b, msgs, i, checkpoint_index, saved_count, fail_at) ==
    IF i >= Len(msgs)
    THEN [rows |-> tbl, saved_count |-> saved_count, raised |-> FALSE]
    ELSE IF i >= checkpoint_index
         THEN IF fail_at = 1 \/ InsertFails(tbl, b, saved_count, msgs[i + 1].role)
              THEN [rows |-> tbl, saved_count |-> saved_count, raised |-> TRUE]
              ELSE SaveNewMessages(
                       save_branch_message(tbl, b, saved_count, msgs[i + 1].role,
                                           msgs[i + 1].content),
                       b, msgs, i + 1, checkpoint_index, saved_count + 1,
                       IF fail_at = NoWriteError THEN NoWriteError
                       ELSE fail_at - 1)
         ELSE SaveNewMessages(tbl, b, msgs, i + 1, checkpoint_index, saved_count,
                              fail_at)

\* dict.get(key, 0)
GetOrZero(d, k) == IF k \in DOMAIN d THEN d[k] ELSE 0

\* the rows update_current_branch(msgs) writes, the saved count it reaches
\* and whether a write raised
UpdateWrites(msgs, fail_at) ==
    LET b == current_branch
        old_len == Len(branches[b].messages)
    IN  IF Len(msgs) > old_len
        THEN SaveNewMessages(db_branch_messages, b, msgs, first_new_index(old_len),
                 checkpoints[branches[b].checkpoint_id].message_index,
                 GetOrZero(branch_saved_count, b), fail_at)
        ELSE [rows |-> db_branch_messages,
              saved_count |-> GetOrZero(branch_saved_count, b), raised |-> FALSE]

HasCurrentBranch == current_branch # NoBranch /\ current_branch \in DOMAIN branches

\* did update_current_branch(msgs) raise
UpdateRaises(msgs, fail_at) ==
    HasCurrentBranch /\ UpdateWrites(msgs, fail_at).raised

\* BranchingManager.update_current_branch
update_current_branch(msgs, fail_at) ==
    IF HasCurrentBranch
    THEN LET w == UpdateWrites(msgs, fail_at)
         IN  /\ branches' = [branches EXCEPT ![current_branch].messages = msgs]
             /\ db_branch_messages' = w.rows
             /\ branch_saved_count' =
                    IF Len(msgs) > Len(branches[current_branch].messages)
                       /\ ~w.raised
                    THEN Put(branch_saved_count, current_branch, w.saved_count)
                    ELSE branch_saved_count
             /\ UNCHANGED <<expertVars, checkpoints, current_branch, checkpoint_counter,
                            branch_counter>>
    ELSE UNCHANGED <<expertVars, bmVars, db_branch_messages>>

(* -------------------------------- Agent ------------------------------- *)
Strategies == {"sliding_window", "sticky_facts", "branching"}

\* _prepare_messages testing the compression flag before the strategy
PrepareKind_compression_first ==
    IF compression_enabled THEN "sliding_window"
    ELSE IF strategy = "sticky_facts" THEN "sticky_facts"
    ELSE IF strategy = "branching" THEN "branching"
    ELSE "default"

\* Agent._prepare_messages: which strategy prepares the submission
PrepareKind ==
    IF strategy = "sticky_facts" THEN "sticky_facts"
    ELSE IF strategy = "branching" THEN "branching"
    ELSE IF compression_enabled THEN "sliding_window"
    ELSE "default"

Stats == [original_tokens |-> original_tokens,
          compressed_tokens |-> compressed_tokens,
          tokens_saved |-> tokens_saved]

\* what is recorded of an operation: its name, its argument, whether it
\* succeeded, the completion-service calls it issued and whether the
\* extraction answer parsed
Observed(op, arg, ok, calls, parsed) ==
    [op |-> op, arg |-> arg, ok |-> ok, calls |-> calls, parsed |-> parsed]

\* the state a turn in flight started from; NoSnapshot when none is in flight
NoSnapshot ==
    [messages |-> <<>>, facts |-> EmptyFacts, summaries |-> <<>>,
     db_messages |-> <<>>, db_branch_messages |-> <<>>]

Snapshot ==
    [messages |-> messages, facts |-> facts, summaries |-> summaries,
     db_messages |-> db_messages, db_branch_messages |-> db_branch_messages]

Idle == [at |-> "idle", user_input |-> <<>>]

\* the sticky-facts submission with every non-system message of the
\* transcript
StickySubmission_whole(msgs, store) ==
    (IF system_prompt # NoPrompt
     THEN <<Msg("system", system_prompt \o get_facts_prompt(store))>> ELSE <<>>)
        \o SelectSeqRole(msgs, FALSE)

\* _prepare_messages, lines 147-164: the system prompt with the facts, then
\* the non-system messages among the last 6
StickySubmission(msgs, store) ==
    (IF system_prompt # NoPrompt
     THEN <<Msg("system", system_prompt \o get_facts_prompt(store))>> ELSE <<>>)
        \o SelectSeqRole(LastN(msgs, 6), FALSE)

\* the live transcript changed while branch b was current
TrackLive(newMessages) ==
    IF HasCurrentBranch
    THEN [branch_live EXCEPT ![current_branch] = newMessages]
    ELSE branch_live

\* save_sticky_facts: the session's rows are replaced by one row per entry
\* with a non-empty value (the table is kept as the set of its rows)
save_sticky_facts(tbl, sid, store) ==
    {r \in tbl : r.session_id # sid}
        \cup {[session_id |-> sid, category |-> e[1], key |-> e[2], value |-> e[3]] :
                e \in {x \in store.items : x[3] # ""}}

\* where the program is after the reply call of think_stream, line 105
AfterReplyCall(text, replyRaises) ==
    [at |-> IF replyRaises THEN "crashed" ELSE "streaming", user_input |-> text]

ReplyCallOp(replyRaises) == IF replyRaises THEN "reply_error" ELSE "turn_start"

\* Agent.think_stream called by the CLI (cli.py line 383, agent.py lines
\* 92-112 and 140-179): the user message is appended, the active strategy
\* prepares the submission and the reply call is issued.  replyRaises: the
\* reply call of line 105 raises; nothing between it and the end of
\* cli.start catches the exception, so the program ends.
think_stream(text, response, replies, replyRaises) ==
    LET msgs == Append(messages, Msg("user", text))
    IN  /\ pc.at = "idle"
        /\ turn_count' = turn_count + 1
        /\ messages' = msgs
        /\ snap' = Snapshot
        /\ branch_live' = TrackLive(msgs)
        /\ UNCHANGED <<expertVars, strategy, compression_enabled, model, system_prompt, session_id, recent_window_size,
                       summary_batch_size, db_sessions, db_session_seq, db_messages, db_sticky_facts,
                       db_checkpoints, db_branches, cp_source>>
        /\ CASE PrepareKind = "sticky_facts" ->
                  LET r == extract_facts(msgs, facts, response)
                  IN  /\ facts' = r.facts
                      /\ submission' = StickySubmission(msgs, r.facts)
                      /\ pc' = AfterReplyCall(text, replyRaises)
                      /\ last' = Observed(ReplyCallOp(replyRaises), 0, ~replyRaises,
                                          r.calls, r.parsed)
                      /\ UNCHANGED <<expertVars, summaries, original_tokens, compressed_tokens,
                                     tokens_saved, bmVars, db_branch_messages,
                                     summarize_calls>>
             [] PrepareKind = "branching" ->
                  /\ update_current_branch(msgs, NoWriteError)
                  /\ submission' = msgs
                  /\ pc' = IF UpdateRaises(msgs, NoWriteError)
                           THEN [at |-> "crashed", user_input |-> text]
                           ELSE AfterReplyCall(text, replyRaises)
                  /\ last' = IF UpdateRaises(msgs, NoWriteError)
                             THEN Observed("turn_start", 0, FALSE, 0, FALSE)
                             ELSE Observed(ReplyCallOp(replyRaises), 0, ~replyRaises,
                                           0, FALSE)
                  /\ UNCHANGED <<expertVars, summaries, original_tokens, compressed_tokens,
                                 tokens_saved, facts, summarize_calls>>
             [] PrepareKind = "sliding_window" ->
                  LET c == compress(msgs, summaries, recent_window_size,
                                    summary_batch_size, Stats, replies)
                  IN  /\ summaries' = c.summaries
                      /\ submission' = IF c.raised THEN submission ELSE c.ret
                      /\ original_tokens' = c.stats.original_tokens
                      /\ compressed_tokens' = c.stats.compressed_tokens
                      /\ tokens_saved' = c.stats.tokens_saved
                      /\ summarize_calls' = summarize_calls \o c.calls
                      /\ pc' = IF c.raised
                               THEN [at |-> "crashed", user_input |-> text]
                               ELSE AfterReplyCall(text, replyRaises)
                      /\ last' = IF c.raised
                                 THEN Observed("turn_start", 0, FALSE, Len(c.calls),
                                               FALSE)
                                 ELSE Observed(ReplyCallOp(replyRaises), 0,
                                               ~replyRaises, Len(c.calls), FALSE)
                      /\ UNCHANGED <<expertVars, facts, bmVars, db_branch_messages>>
             [] OTHER ->
                  /\ submission' = msgs
                  /\ pc' = AfterReplyCall(text, replyRaises)
                  /\ last' = Observed(ReplyCallOp(replyRaises), 0, ~replyRaises, 0, FALSE)
                  /\ UNCHANGED <<expertVars, compVars, facts, bmVars, db_branch_messages,
                                 summarize_calls>>

\* fewer turns were started than the session may start
TurnsLeft ==
    turn_count < (IF strategy = "branching" THEN MaxBranchingTurns ELSE MaxTurns)

\* a turn whose reply call returned the stream
TurnStart(text, response, replies) ==
    TurnsLeft /\ think_stream(text, response, replies, FALSE)

\* a turn whose reply call raised (connection error, time-out, API error)
TurnReplyError(text, response, replies) ==
    TurnsLeft /\ think_stream(text, response, replies, TRUE)

\* cli.py lines 388-429: the stream is consumed, the reply is appended to the
\* transcript, both messages of the exchange are saved, and under the
\* sticky-facts strategy the facts are saved.  get_token_stats walks
\* facts.items(), which raises when the store is not a dict.
TurnFinish(reply) ==
    LET msgs == Append(messages, Msg("assistant", reply))
        statsRaise == strategy = "sticky_facts" /\ facts.kind # "dict"
        tu == count_message(pc.user_input)
        ta == count_message(reply)
        rows1 == save_message_rows(db_messages, session_id, "user", pc.user_input, tu)
        rows2 == save_message_rows(rows1, session_id, "assistant", reply, ta)
    IN  /\ pc.at = "streaming"
        /\ messages' = msgs
        /\ branch_live' = TrackLive(msgs)
        /\ pc' = IF statsRaise THEN [at |-> "crashed", user_input |-> pc.user_input]
                 ELSE Idle
        /\ last' = Observed("turn_finish", 0, ~statsRaise, 0, FALSE)
        /\ IF statsRaise \/ session_id = NoSession
           THEN UNCHANGED <<expertVars, db_messages, db_sessions, db_sticky_facts>>
           ELSE /\ db_messages' = rows2
                /\ db_sessions' = save_message_stats(
                       save_message_stats(db_sessions, session_id, tu), session_id, ta)
                /\ db_sticky_facts' =
                       IF strategy = "sticky_facts"
                       THEN save_sticky_facts(db_sticky_facts, session_id, facts)
                       ELSE db_sticky_facts
        /\ snap' = NoSnapshot
        /\ UNCHANGED <<expertVars, strategy, compression_enabled, model, system_prompt, session_id, compVars, facts,
                       bmVars, db_session_seq, db_checkpoints, db_branches, db_branch_messages,
                       summarize_calls, cp_source, turn_count, submission>>

\* cli.py lines 450-452: KeyboardInterrupt while the reply streams; the
\* handler prints and continues the loop
TurnCancel ==
    /\ pc.at = "streaming"
    /\ pc' = Idle
    /\ last' = Observed("cancel", 0, TRUE, 0, FALSE)
    /\ snap' = NoSnapshot
    /\ UNCHANGED <<expertVars, strategy, compression_enabled, model, system_prompt, messages, session_id, compVars,
                   facts, bmVars, dbVars, summarize_calls, cp_source, branch_live,
                   turn_count, submission>>

\* cli.py lines 308-329: /checkpoint <name> at millisecond ms; an exception
\* of the INSERT is caught nowhere and ends the program
checkpoint_command(ms) ==
    /\ pc.at = "idle"
    /\ strategy = "branching"
    /\ create_checkpoint(messages, ms)
    /\ cp_source' = Put(cp_source, NewId(checkpoint_counter + 1, ms), messages)
    /\ pc' = IF CheckpointRaises(ms) THEN [at |-> "crashed", user_input |-> <<>>]
             ELSE pc
    /\ last' = Observed("checkpoint", NewId(checkpoint_counter + 1, ms),
                        ~CheckpointRaises(ms), 0, FALSE)
    /\ UNCHANGED <<expertVars, strategy, compression_enabled, model, system_prompt, messages,
                   session_id, compVars, facts, db_sessions, db_session_seq,
                   db_messages, db_sticky_facts, db_branches, db_branch_messages,
                   summarize_calls, snap, branch_live, turn_count, submission>>

\* /checkpoint while fewer than MaxCheckpoints checkpoints exist
CmdCheckpoint == checkpoint_counter < MaxCheckpoints /\ checkpoint_command(Epoch)

\* cli.py lines 349-357: /branch create <checkpoint_id> at millisecond ms; an
\* exception of the INSERT is caught nowhere and ends the program
branch_create_command(cp, ms) ==
    /\ pc.at = "idle"
    /\ strategy = "branching"
    /\ create_branch(cp, messages, ms)
    /\ branch_live' =
           IF cp \in DOMAIN checkpoints
           THEN Put(branch_live, NewId(branch_counter + 1, ms),
                    branch_messages_of(messages, checkpoints[cp].message_index))
           ELSE branch_live
    /\ pc' = IF BranchRaises(cp, ms) THEN [at |-> "crashed", user_input |-> <<>>]
             ELSE pc
    /\ last' = Observed("branch_create", cp,
                        cp \in DOMAIN checkpoints /\ ~BranchRaises(cp, ms), 0, FALSE)
    /\ UNCHANGED <<expertVars, strategy, compression_enabled, model, system_prompt, messages,
                   session_id, compVars, facts, db_sessions, db_session_seq,
                   db_messages, db_sticky_facts, db_checkpoints, db_branch_messages,
                   summarize_calls, snap, cp_source, turn_count, submission>>

\* /branch create while fewer than MaxBranches branches exist
CmdBranchCreate(cp) ==
    branch_counter < MaxBranches /\ branch_create_command(cp, Epoch)

\* cli.py lines 358-366: /branch switch <branch_id>; the live transcript is
\* replaced when switch_branch returned a non-empty list
CmdBranchSwitch(b) ==
    LET found == b \in DOMAIN branches
        ret == IF found THEN branches[b].messages ELSE <<>>
    IN  /\ pc.at = "idle"
        /\ strategy = "branching"
        /\ switch_branch(b)
        /\ messages' = IF ret # <<>> THEN ret ELSE messages
        /\ last' = Observed("branch_switch", b, ret # <<>>, 0, FALSE)
        /\ UNCHANGED <<expertVars, strategy, compression_enabled, model, system_prompt, session_id, pc, compVars,
                       facts, db_sessions, db_session_seq, db_messages, db_sticky_facts,
                       db_checkpoints, db_branch_messages, summarize_calls, snap,
                       cp_source, branch_live, turn_count, submission>>

\* the session the CLI created before the loop starts
FirstSession == 1

(* --------------- group of experts (strategies/strategy_4.py) ----------- *)
\* strategy_4.py lines 6-10: the experts consulted in every turn
EXPERTS == {"Analyst", "Engineer", "Scientist"}

\* usage_data = None: the stream carried no usage chunk
NoUsage == <<>>

\* what one expert call may stream: its content chunks and its usage
ExpertReplies ==
    {[chunks |-> <<"c1">>, usage |-> NoUsage],
     [chunks |-> <<"c1", "c2">>,
      usage |-> [total_tokens |-> 3, prompt_tokens |-> 1, completion_tokens |-> 2]],
     [chunks |-> <<>>,
      usage |-> [total_tokens |-> 5, prompt_tokens |-> 2, completion_tokens |-> 3]]}

\* no expert call submitted
NoFutures ==
    [e \in EXPERTS |-> [state |-> "none", chunks |-> <<>>, usage |-> NoUsage]]

\* TokenTracker.__init__
NewTracker == [total_tokens |-> 0, prompt_tokens |-> 0, completion_tokens |-> 0]

\* the totals replaced by the usage in place of added to
add_usage_overwrite(t, usage) == IF usage # NoUsage THEN usage ELSE t

\* TokenTracker.add_usage
add_usage(t, usage) ==
    IF usage # NoUsage
    THEN [total_tokens |-> t.total_tokens + usage.total_tokens,
          prompt_tokens |-> t.prompt_tokens + usage.prompt_tokens,
          completion_tokens |-> t.completion_tokens + usage.completion_tokens]
    ELSE t

\* chat_loop before the first input: a new tracker and console, no call made
NoExpertTurn ==
    /\ futures = NoFutures
    /\ console = <<>>
    /\ tracker = NewTracker
    /\ expert_calls = <<>>

\* the agent after Agent.__init__ and create_session (cli.py lines 140-151)
Init ==
    /\ strategy \in Strategies
    /\ compression_enabled = (strategy = "sliding_window")
    /\ model = DefaultModel
    /\ system_prompt = SystemPrompt
    /\ messages = InitialMessages
    /\ session_id = FirstSession
    /\ pc = Idle
    /\ recent_window_size = DefaultWindow
    /\ summary_batch_size = DefaultBatch
    /\ summaries = <<>>
    /\ original_tokens = 0
    /\ compressed_tokens = 0
    /\ tokens_saved = 0
    /\ facts = EmptyFacts
    /\ checkpoints = <<>>
    /\ branches = <<>>
    /\ current_branch = NoBranch
    /\ checkpoint_counter = 0
    /\ branch_counter = 0
    /\ branch_saved_count = <<>>
    /\ db_sessions = (FirstSession :> SessionRow(strategy, model, system_prompt))
    /\ db_session_seq = FirstSession
    /\ db_messages = <<>>
    /\ db_sticky_facts = {}
    /\ db_checkpoints = <<>>
    /\ db_branches = <<>>
    /\ db_branch_messages = <<>>
    /\ last = Observed("init", 0, TRUE, 0, FALSE)
    /\ summarize_calls = <<>>
    /\ snap = NoSnapshot
    /\ cp_source = <<>>
    /\ branch_live = <<>>
    /\ turn_count = 0
    /\ submission = <<>>
    /\ NoExpertTurn

Next ==
    \/ \E text \in UserTexts :
         \E response \in (IF strategy = "sticky_facts" THEN ExtractionResponses
                          ELSE {<<>>}) :
           \E replies \in (IF PrepareKind = "sliding_window" THEN SummaryReplies
                           ELSE {[i \in 1 .. MaxCallsPerCompress |-> <<"sA">>]}) :
             \/ TurnStart(text, response, replies)
             \/ TurnReplyError(text, response, replies)
    \/ \E reply \in ReplyTexts : TurnFinish(reply)
    \/ TurnCancel
    \/ CmdCheckpoint
    \/ \E cp \in 1 .. MaxCheckpoints : CmdBranchCreate(cp)
    \/ \E b \in 1 .. MaxBranches : CmdBranchSwitch(b)

Spec == Init /\ [][Next]_vars

(* --------------------------- loading a session ------------------------ *)
Max(a, b) == IF a > b THEN a ELSE b

\* the rows of a table that belong to session sid, in rowid order
SessionRows(tbl, sid) == LET T(r) == r.session_id = sid IN SelectSeq(tbl, T)

\* stored rows as messages (agent.py lines 224-235, branching.py 180-192)
RECURSIVE RowMessages(_)
RowMessages(rows) ==
    IF rows = <<>> THEN <<>>
    ELSE (IF Head(rows).role \in {"user", "assistant"}
          THEN <<Msg(Head(rows).role, Head(rows).content)>> ELSE <<>>)
             \o RowMessages(Tail(rows))

\* the fields of a BranchingManager
ManagerState ==
    [checkpoints |-> checkpoints, branches |-> branches,
     current_branch |-> current_branch, checkpoint_counter |-> checkpoint_counter,
     branch_counter |-> branch_counter, branch_saved_count |-> branch_saved_count]

\* BranchingManager.__init__
NewManager ==
    [checkpoints |-> <<>>, branches |-> <<>>, current_branch |-> NoBranch,
     checkpoint_counter |-> 0, branch_counter |-> 0, branch_saved_count |-> <<>>]

\* reset that leaves the two counters as they are
reset_keeps_counters(bm) ==
    [NewManager EXCEPT !.checkpoint_counter = bm.checkpoint_counter,
                       !.branch_counter = bm.branch_counter]

\* a reset that forgets self.branches.clear()
reset_keeps_branches(bm) == [NewManager EXCEPT !.branches = bm.branches]

\* BranchingManager.reset on a manager in state bm
reset(bm) == NewManager

\* load_from_db, lines 156-164: the loop over the checkpoint rows
RECURSIVE LoadCheckpoints(_, _)
LoadCheckpoints(bm, rows) ==
    IF rows = <<>> THEN bm
    ELSE LET cp == Head(rows)
         IN  LoadCheckpoints(
                 [bm EXCEPT !.checkpoints = Put(@, cp.checkpoint_id,
                                [message_index |-> cp.message_index]),
                            !.checkpoint_counter = Max(@, CounterOf(cp.checkpoint_id))],
                 Tail(rows))

\* load_from_db, lines 167-205: the loop over the branch rows; a branch is
\* rebuilt from base_messages up to its checkpoint and its persisted rows
RECURSIVE LoadBranches(_, _, _)
LoadBranches(bm, rows, base_messages) ==
    IF rows = <<>> THEN bm
    ELSE LET br == Head(rows)
         IN  IF br.checkpoint_id \in DOMAIN bm.checkpoints
             THEN LoadBranches(
                      [bm EXCEPT
                         !.branches = Put(@, br.branch_id,
                             [checkpoint_id |-> br.checkpoint_id,
                              messages |->
                                  branch_messages_of(base_messages,
                                      bm.checkpoints[br.checkpoint_id].message_index)
                                  \o RowMessages(BranchRows(db_branch_messages,
                                                            br.branch_id))]),
                         !.current_branch = IF br.is_active THEN br.branch_id ELSE @,
                         !.branch_counter = Max(@, CounterOf(br.branch_id))],
                      Tail(rows), base_messages)
             ELSE LoadBranches(bm, Tail(rows), base_messages)

\* BranchingManager.load_from_db on a manager in state bm
load_from_db(bm, sid, base_messages) ==
    IF sid = NoSession THEN bm
    ELSE LoadBranches(LoadCheckpoints(bm, SessionRows(db_checkpoints, sid)),
                      SessionRows(db_branches, sid), base_messages)

\* HistoryManager.load_sticky_facts
load_sticky_facts(tbl, sid) ==
    Dict({<<r.category, r.key, r.value>> : r \in {x \in tbl : x.session_id = sid}})

\* the transcript without the system message
LoadedTranscript_no_prompt(sp, rows) == RowMessages(rows)

\* Agent.load_session, lines 214-235: the system message of the stored
\* prompt, then the stored messages in sequence order
LoadedTranscript(sp, rows) == PromptMessages(sp) \o RowMessages(rows)

\* the fields of the Agent load_session reads or writes
AgentState(st, m, sp, msgs, store, bm) ==
    [strategy |-> st, model |-> m, system_prompt |-> sp, messages |-> msgs,
     facts |-> store, bm |-> bm]

\* Agent.load_session(sid) for a stored session, on an agent in state a: the
\* agent afterwards and the branches table after switch_branch
load_session(sid, a) ==
    LET row == db_sessions[sid]
        base == LoadedTranscript(row.system_prompt, SessionMessages(db_messages, sid))
        loaded == load_sticky_facts(db_sticky_facts, sid)
        bm1 == IF a.strategy = "branching" THEN load_from_db(a.bm, sid, base)
               ELSE a.bm
        switch == /\ a.strategy = "branching"
                  /\ bm1.current_branch # NoBranch
                  /\ bm1.current_branch \in DOMAIN bm1.branches
        ret == IF switch THEN bm1.branches[bm1.current_branch].messages ELSE <<>>
    IN  [agent |-> AgentState(a.strategy, row.model, row.system_prompt,
                              IF ret # <<>> THEN ret ELSE base,
                              IF a.strategy = "sticky_facts" /\ Truthy(loaded)
                              THEN loaded ELSE a.facts,
                              bm1),
         db_branches |-> IF switch
                         THEN set_active_branch(db_branches, sid, bm1.current_branch)
                         ELSE db_branches]

\* the agent and the branches table of r become the state
Loaded(r) ==
    /\ model' = r.agent.model
    /\ system_prompt' = r.agent.system_prompt
    /\ messages' = r.agent.messages
    /\ facts' = r.agent.facts
    /\ checkpoints' = r.agent.bm.checkpoints
    /\ branches' = r.agent.bm.branches
    /\ current_branch' = r.agent.bm.current_branch
    /\ checkpoint_counter' = r.agent.bm.checkpoint_counter
    /\ branch_counter' = r.agent.bm.branch_counter
    /\ branch_saved_count' = r.agent.bm.branch_saved_count
    /\ db_branches' = r.db_branches

\* the <<model, system prompt>> an Agent may be constructed with: those of
\* the CLI, and another model without a system prompt
NewAgentArgs == {<<DefaultModel, SystemPrompt>>, <<"gpt-4o", NoPrompt>>}

\* the program ended (exit, crash or kill); a new Agent(model m, system_prompt
\* sp, strategy st) is constructed and loads the stored session (cli.py
\* lines 139-151 and 46-69)
NewAgentLoad(st, m, sp) ==
    /\ SessionExists(FirstSession)
    /\ \E r \in {load_session(FirstSession,
                       AgentState(st, m, sp, PromptMessages(sp), EmptyFacts,
                                  NewManager))} : Loaded(r)
    /\ strategy' = st
    /\ compression_enabled' = (st = "sliding_window")
    /\ session_id' = FirstSession
    /\ pc' = Idle
    /\ recent_window_size' = DefaultWindow
    /\ summary_batch_size' = DefaultBatch
    /\ summaries' = <<>>
    /\ original_tokens' = 0
    /\ compressed_tokens' = 0
    /\ tokens_saved' = 0
    /\ last' = Observed("new_agent_load", FirstSession, TRUE, 0, FALSE)
    /\ snap' = NoSnapshot
    /\ UNCHANGED <<expertVars, db_sessions, db_session_seq, db_messages, db_sticky_facts,
                   db_checkpoints, db_branch_messages, summarize_calls, cp_source,
                   branch_live, turn_count, submission>>

\* Agent.load_session(sid) on the running agent (cli.py lines 207-213 and
\* 46-69); an unknown id returns False before anything is changed
LoadSession(sid) ==
    /\ pc.at = "idle"
    /\ IF SessionExists(sid)
       THEN /\ \E r \in {load_session(sid,
                              AgentState(strategy, model, system_prompt, messages,
                                         facts, ManagerState))} : Loaded(r)
            /\ session_id' = sid
       ELSE UNCHANGED <<expertVars, model, system_prompt, messages, facts, bmVars, db_branches,
                        session_id>>
    /\ last' = Observed("load_session", sid, SessionExists(sid), 0, FALSE)
    /\ UNCHANGED <<expertVars, strategy, compression_enabled, pc, compVars, db_sessions,
                   db_session_seq, db_messages, db_sticky_facts, db_checkpoints,
                   db_branch_messages, summarize_calls, snap, cp_source,
                   branch_live, turn_count, submission>>

\* Agent.clear_history (cli.py lines 202-205, agent.py lines 71-90): the
\* transcript is cut back to the system message and the strategy's manager
\* is reset; the database is not touched
clear_command ==
    /\ pc.at = "idle"
    /\ messages' = PromptMessages(system_prompt)
    /\ IF compression_enabled
       THEN /\ summaries' = <<>>
            /\ tokens_saved' = 0
            /\ original_tokens' = 0
            /\ compressed_tokens' = 0
       ELSE UNCHANGED <<expertVars, summaries, tokens_saved, original_tokens, compressed_tokens>>
    /\ facts' = IF strategy = "sticky_facts" THEN EmptyFacts ELSE facts
    /\ IF strategy = "branching"
       THEN \E bm \in {reset(ManagerState)} :
                /\ checkpoints' = bm.checkpoints
                /\ branches' = bm.branches
                /\ current_branch' = bm.current_branch
                /\ checkpoint_counter' = bm.checkpoint_counter
                /\ branch_counter' = bm.branch_counter
                /\ branch_saved_count' = bm.branch_saved_count
       ELSE UNCHANGED bmVars
    /\ last' = Observed("clear", 0, TRUE, 0, FALSE)
    /\ UNCHANGED <<expertVars, strategy, compression_enabled, model, system_prompt, session_id,
                   pc, recent_window_size, summary_batch_size, dbVars,
                   summarize_calls, snap, cp_source, branch_live, turn_count,
                   submission>>

\* /clear while the session has no stored checkpoint or branch: every
\* identifier of this run is created at Epoch, and a manager that was reset
\* would create a stored identifier again
CmdClear ==
    /\ SessionRows(db_checkpoints, session_id) = <<>>
    /\ SessionRows(db_branches, session_id) = <<>>
    /\ clear_command

\* the CLI run, ended and started again any number of times with the
\* strategy the session was created with
NextSession ==
    \/ Next
    \/ \E st \in {strategy} : \E a \in NewAgentArgs : NewAgentLoad(st, a[1], a[2])
    \/ \E sid \in {FirstSession, FirstSession + 1} : LoadSession(sid)
    \/ CmdClear

SpecSession == Init /\ [][NextSession]_vars

(* ------------------ short sessions, loaded and cleared ----------------- *)
\* the turns, checkpoints and branches of a session that is loaded and
\* cleared any number of times
MaxReloadTurns == 1
MaxReloadCheckpoints == 1
MaxReloadBranches == 1

NextReload ==
    \/ \E text \in UserTexts :
         \E response \in (IF strategy = "sticky_facts" THEN ExtractionResponses
                          ELSE {<<>>}) :
           \E replies \in (IF PrepareKind = "sliding_window" THEN SummaryReplies
                           ELSE {[i \in 1 .. MaxCallsPerCompress |-> <<"sA">>]}) :
             \E replyRaises \in BOOLEAN :
               /\ turn_count < MaxReloadTurns
               /\ think_stream(text, response, replies, replyRaises)
    \/ \E reply \in ReplyTexts : TurnFinish(reply)
    \/ TurnCancel
    \/ checkpoint_counter < MaxReloadCheckpoints /\ checkpoint_command(Epoch)
    \/ \E cp \in 1 .. MaxReloadCheckpoints + 1 :
         branch_counter < MaxReloadBranches /\ branch_create_command(cp, Epoch)
    \/ \E b \in 1 .. MaxReloadBranches + 1 : CmdBranchSwitch(b)
    \/ \E st \in {strategy} : \E a \in NewAgentArgs : NewAgentLoad(st, a[1], a[2])
    \/ \E sid \in {FirstSession, FirstSession + 1} : LoadSession(sid)
    \/ CmdClear

SpecReload == Init /\ [][NextReload]_vars

(* ------------------- BranchingManager driven directly ------------------ *)
\* the longest transcript a caller passes to update_current_branch, and the
\* checkpoints and branches it creates
MaxApiLen == 5
MaxApiCheckpoints == 2
MaxApiBranches == 1

\* the message added to the transcript msgs: a user message opens every
\* exchange, the roles alternate, and every position has its own text
ApiMessage(msgs) ==
    Msg(IF msgs = <<>> \/ msgs[Len(msgs)].role # "user" THEN "user"
        ELSE "assistant",
        <<"m", ToString(Len(msgs) + 1)>>)

\* the transcript after k more calls of Agent.add_message
RECURSIVE Extend(_, _)
Extend(msgs, k) ==
    IF k = 0 THEN msgs
    ELSE Extend(Append(msgs, ApiMessage(msgs)), k - 1)

\* k messages are added to the transcript and the caller hands it to
\* BranchingManager.update_current_branch (k = 0: the same transcript again)
ApiUpdateWith(k, fail_at) ==
    LET msgs == Extend(messages, k)
    IN  /\ pc.at = "idle"
        /\ Len(msgs) <= MaxApiLen
        /\ messages' = msgs
        /\ update_current_branch(msgs, fail_at)
        /\ branch_live' = TrackLive(msgs)
        /\ pc' = IF UpdateRaises(msgs, fail_at)
                 THEN [at |-> "crashed", user_input |-> <<>>] ELSE pc
        /\ last' = Observed("update", k, ~UpdateRaises(msgs, fail_at), 0, FALSE)
        /\ UNCHANGED <<expertVars, strategy, compression_enabled, model, system_prompt, session_id, compVars, facts,
                       db_sessions, db_session_seq, db_messages, db_sticky_facts,
                       db_checkpoints,
                       db_branches, summarize_calls, snap, cp_source, turn_count,
                       submission>>

\* the update with a database that accepts every write its constraints allow
ApiUpdate(k) == ApiUpdateWith(k, NoWriteError)

\* the update in which the write number fail_at is refused by the database
ApiUpdateWriteError(k, fail_at) ==
    /\ HasCurrentBranch
    /\ UpdateRaises(Extend(messages, k), fail_at)
    /\ ApiUpdateWith(k, fail_at)

\* an Agent constructed with the branching strategy
InitBM == Init /\ strategy = "branching"

\* create_checkpoint and create_branch on the live transcript
ApiCheckpoint == checkpoint_counter < MaxApiCheckpoints /\ checkpoint_command(Epoch)

ApiBranchCreate(cp) ==
    branch_counter < MaxApiBranches /\ branch_create_command(cp, Epoch)

NextBM ==
    \/ \E k \in 0 .. 2 : ApiUpdate(k)
    \/ ApiCheckpoint
    \/ \E cp \in 1 .. MaxApiCheckpoints : ApiBranchCreate(cp)
    \/ \E b \in 1 .. MaxApiBranches : CmdBranchSwitch(b)

SpecBM == InitBM /\ [][NextBM]_vars

\* the manager on a database that may refuse a write
NextBMWriteError ==
    \/ NextBM
    \/ \E k \in 1 .. 2 : \E fail_at \in 1 .. k : ApiUpdateWriteError(k, fail_at)

SpecBMWriteError == InitBM /\ [][NextBMWriteError]_vars

\* the manager is replaced by a new BranchingManager for the session, which
\* loads from the database with the caller's transcript as base; the caller
\* switches to the branch marked active (agent.py lines 242-251)
ApiReload ==
    /\ pc.at = "idle"
    /\ \E bm \in {load_from_db(NewManager, session_id, messages)} :
         LET switch == bm.current_branch # NoBranch
                          /\ bm.current_branch \in DOMAIN bm.branches
         IN  /\ checkpoints' = bm.checkpoints
             /\ branches' = bm.branches
             /\ current_branch' = bm.current_branch
             /\ checkpoint_counter' = bm.checkpoint_counter
             /\ branch_counter' = bm.branch_counter
             /\ branch_saved_count' = bm.branch_saved_count
             /\ messages' = IF switch /\ bm.branches[bm.current_branch].messages # <<>>
                            THEN bm.branches[bm.current_branch].messages
                            ELSE messages
             /\ db_branches' =
                    IF switch
                    THEN set_active_branch(db_branches, session_id, bm.current_branch)
                    ELSE db_branches
    /\ last' = Observed("reload", session_id, TRUE, 0, FALSE)
    /\ UNCHANGED <<expertVars, strategy, compression_enabled, model, system_prompt, session_id,
                   pc, compVars, facts, db_sessions, db_session_seq, db_messages,
                   db_sticky_facts, db_checkpoints, db_branch_messages,
                   summarize_calls, snap, cp_source, branch_live, turn_count,
                   submission>>

NextBMReload ==
    \/ NextBM
    \/ ApiReload

SpecBMReload == InitBM /\ [][NextBMReload]_vars

(* --------------- BranchingManager reset and loaded again --------------- *)
\* the checkpoint rows and branch rows stored for the session, the last
\* millisecond in which an identifier is created and the longest transcript
MaxStoredCheckpoints == 2
MaxStoredBranches == 1
MaxStamp == 1
MaxResetLen == 3

\* the checkpoint and branch identifiers a caller may name
NamedCheckpointIds ==
    {NewId(n, ms) : n \in 1 .. MaxStoredCheckpoints, ms \in 0 .. MaxStamp}
NamedBranchIds ==
    {NewId(n, ms) : n \in 1 .. MaxStoredBranches, ms \in 0 .. MaxStamp}

\* the latest millisecond of an identifier created so far
LatestStamp ==
    LET ids == {db_checkpoints[i].checkpoint_id : i \in DOMAIN db_checkpoints}
                   \cup {db_branches[i].branch_id : i \in DOMAIN db_branches}
                   \cup DOMAIN checkpoints \cup DOMAIN branches
    IN  IF ids = {} THEN Epoch
        ELSE CHOOSE m \in {StampOf(x) : x \in ids} :
                 \A x \in ids : StampOf(x) <= m

\* datetime.now() of the next call: the clock has not moved since the latest
\* identifier was created, or it has
Stamps == {ms \in {LatestStamp, LatestStamp + 1} : ms <= MaxStamp}

ApiCheckpointAt(ms) ==
    Len(db_checkpoints) < MaxStoredCheckpoints /\ checkpoint_command(ms)

ApiBranchCreateAt(cp, ms) ==
    Len(db_branches) < MaxStoredBranches /\ branch_create_command(cp, ms)

\* BranchingManager.reset called on the manager
ApiReset ==
    /\ pc.at = "idle"
    /\ \E bm \in {reset(ManagerState)} :
         /\ checkpoints' = bm.checkpoints
         /\ branches' = bm.branches
         /\ current_branch' = bm.current_branch
         /\ checkpoint_counter' = bm.checkpoint_counter
         /\ branch_counter' = bm.branch_counter
         /\ branch_saved_count' = bm.branch_saved_count
    /\ last' = Observed("reset", 0, TRUE, 0, FALSE)
    /\ UNCHANGED <<expertVars, agentVars, compVars, facts, dbVars, summarize_calls, snap,
                   cp_source, branch_live, turn_count, submission>>

NextBMReset ==
    \/ Len(messages) < MaxResetLen /\ ApiUpdate(1)
    \/ \E ms \in Stamps : ApiCheckpointAt(ms)
    \/ \E cp \in NamedCheckpointIds : \E ms \in Stamps : ApiBranchCreateAt(cp, ms)
    \/ \E b \in NamedBranchIds : CmdBranchSwitch(b)
    \/ ApiReset
    \/ clear_command
    \/ ApiReload

SpecBMReset == InitBM /\ [][NextBMReset]_vars

(* ------------------- BranchingManager reset, not reloaded -------------- *)
\* the checkpoint rows and branch rows stored for the session, the longest
\* transcript and the last millisecond in which an identifier is created
MaxClearCheckpoints == 1
MaxClearBranches == 1
MaxClearLen == 3
MaxClearStamp == 0

\* the checkpoint and branch identifiers a caller may name
ClearCheckpointIds ==
    {NewId(n, ms) : n \in 1 .. MaxClearCheckpoints, ms \in 0 .. MaxClearStamp}
ClearBranchIds ==
    {NewId(n, ms) : n \in 1 .. MaxClearBranches, ms \in 0 .. MaxClearStamp}

\* datetime.now() of the next call
ClearStamps == {ms \in {LatestStamp, LatestStamp + 1} : ms <= MaxClearStamp}

\* the manager is used and reset within one run of the program
NextBMClear ==
    \/ Len(messages) < MaxClearLen /\ ApiUpdate(1)
    \/ \E ms \in ClearStamps :
         Len(db_checkpoints) < MaxClearCheckpoints /\ checkpoint_command(ms)
    \/ \E cp \in ClearCheckpointIds : \E ms \in ClearStamps :
         Len(db_branches) < MaxClearBranches /\ branch_create_command(cp, ms)
    \/ \E b \in ClearBranchIds : CmdBranchSwitch(b)
    \/ ApiReset
    \/ clear_command

SpecBMClear == InitBM /\ [][NextBMClear]_vars

(* ------------------- BranchingManager reset and reloaded --------------- *)
\* the longest transcript handed to a manager that is both reset and reloaded
MaxIntegrityLen == 2

NextBMIntegrity ==
    \/ Len(messages) < MaxIntegrityLen /\ ApiUpdate(1)
    \/ \E ms \in ClearStamps :
         Len(db_checkpoints) < MaxClearCheckpoints /\ checkpoint_command(ms)
    \/ \E cp \in ClearCheckpointIds : \E ms \in ClearStamps :
         Len(db_branches) < MaxClearBranches /\ branch_create_command(cp, ms)
    \/ \E b \in ClearBranchIds : CmdBranchSwitch(b)
    \/ ApiReset
    \/ clear_command
    \/ ApiReload

SpecBMIntegrity == InitBM /\ [][NextBMIntegrity]_vars

(* ------------------- ContextCompressor driven directly ----------------- *)
\* the (recent_window_size, summary_batch_size) pairs a compressor is
\* constructed with
CompressorConfigs == {<<2, 2>>, <<3, 2>>, <<DefaultWindow, DefaultBatch>>}

\* the transcript grows until its old prefix holds this many batches
MaxBatches == 2

ConversationCap == recent_window_size + MaxBatches * summary_batch_size

\* Agent.add_message: one more conversational message
CompAddMessage ==
    /\ pc.at = "idle"
    /\ Len(SelectSeqRole(messages, FALSE)) < ConversationCap
    /\ messages' = Extend(messages, 1)
    /\ last' = Observed("add_message", 0, TRUE, 0, FALSE)
    /\ UNCHANGED <<expertVars, strategy, compression_enabled, model, system_prompt, session_id, pc, compVars, facts,
                   bmVars, dbVars, summarize_calls, snap, cp_source, branch_live,
                   turn_count, submission>>

\* the number of the call, among the n calls issued, that was answered by an
\* error; 0 when none was
FailedCall(replies, n) ==
    IF \E k \in 1 .. n : replies[k] = ApiError
    THEN CHOOSE k \in 1 .. n :
             replies[k] = ApiError /\ \A j \in 1 .. k - 1 : replies[j] # ApiError
    ELSE 0

\* ContextCompressor.compress(messages) with the answers the summarization
\* calls get; when a call raises, compress returns nothing and the exception
\* ends the caller (agent.py lines 100 and 166-170, cli.py line 383)
CompCompress(replies) ==
    \E c \in {compress(messages, summaries, recent_window_size,
                        summary_batch_size, Stats, replies)} :
        /\ pc.at = "idle"
        /\ summaries' = c.summaries
        /\ submission' = IF c.raised THEN submission ELSE c.ret
        /\ original_tokens' = c.stats.original_tokens
        /\ compressed_tokens' = c.stats.compressed_tokens
        /\ tokens_saved' = c.stats.tokens_saved
        /\ summarize_calls' = summarize_calls \o c.calls
        /\ pc' = IF c.raised THEN [at |-> "crashed", user_input |-> <<>>] ELSE pc
        /\ last' = Observed(IF c.raised THEN "compress_error" ELSE "compress",
                            FailedCall(replies, Len(c.calls)), ~c.raised,
                            Len(c.calls), FALSE)
        /\ UNCHANGED <<expertVars, strategy, compression_enabled, model, system_prompt,
                       messages, session_id, recent_window_size,
                       summary_batch_size, facts, bmVars, dbVars, snap, cp_source,
                       branch_live, turn_count>>

\* the answers replies with the call number k raising
FailingAt(replies, k) == [replies EXCEPT ![k] = ApiError]

\* a compressor and the transcript it is first invoked on: the transcript
\* may already be long, may have no system prompt (Agent.__init__ adds one
\* only when given), and the compressor may hold a summary of an earlier
\* transcript (Agent.load_session replaces the transcript and leaves the
\* compressor as it is)
InitCompress ==
    /\ strategy = "sliding_window"
    /\ compression_enabled = TRUE
    /\ model = DefaultModel
    /\ system_prompt \in {NoPrompt, SystemPrompt}
    /\ \E cfg \in CompressorConfigs :
         /\ recent_window_size = cfg[1]
         /\ summary_batch_size = cfg[2]
         /\ \E n \in 0 .. cfg[1] + MaxBatches * cfg[2] :
              messages = Extend(PromptMessages(system_prompt), n)
    /\ summaries \in {<<>>, <<<<"sA">>>>}
    /\ session_id = FirstSession
    /\ pc = Idle
    /\ original_tokens = 0
    /\ compressed_tokens = 0
    /\ tokens_saved = 0
    /\ facts = EmptyFacts
    /\ checkpoints = <<>>
    /\ branches = <<>>
    /\ current_branch = NoBranch
    /\ checkpoint_counter = 0
    /\ branch_counter = 0
    /\ branch_saved_count = <<>>
    /\ db_sessions = (FirstSession :> SessionRow(strategy, model, system_prompt))
    /\ db_session_seq = FirstSession
    /\ db_messages = <<>>
    /\ db_sticky_facts = {}
    /\ db_checkpoints = <<>>
    /\ db_branches = <<>>
    /\ db_branch_messages = <<>>
    /\ last = Observed("init", 0, TRUE, 0, FALSE)
    /\ summarize_calls = <<>>
    /\ snap = NoSnapshot
    /\ cp_source = <<>>
    /\ branch_live = <<>>
    /\ turn_count = 0
    /\ submission = <<>>
    /\ NoExpertTurn

NextCompress ==
    \/ CompAddMessage
    \/ \E replies \in SummaryReplies : CompCompress(replies)

SpecCompress == InitCompress /\ [][NextCompress]_vars

\* the compressor with summarization calls that may raise
NextCompressError ==
    \/ NextCompress
    \/ \E replies \in SummaryReplies :
         \E k \in 1 .. MaxCallsPerCompress : CompCompress(FailingAt(replies, k))

\* a compressor that keeps the last two messages
InitCompressError ==
    /\ InitCompress
    /\ recent_window_size = 2

SpecCompressError == InitCompressError /\ [][NextCompressError]_vars

\* Agent.load_session (agent.py lines 214-235) of another session: the
\* transcript is replaced by the stored one of n conversational messages and
\* the compressor is left as it is
CompLoadTranscript(n) ==
    /\ pc.at = "idle"
    /\ session_id = FirstSession
    /\ session_id' = FirstSession + 1
    /\ messages' = Extend(PromptMessages(system_prompt), n)
    /\ last' = Observed("load_transcript", n, TRUE, 0, FALSE)
    /\ UNCHANGED <<expertVars, strategy, compression_enabled, model, system_prompt, pc,
                   compVars, facts, bmVars, dbVars, summarize_calls, snap,
                   cp_source, branch_live, turn_count, submission>>

\* the compressor of an agent that loads a session with a short transcript
NextCompressLoad ==
    \/ NextCompress
    \/ \E n \in 0 .. recent_window_size : CompLoadTranscript(n)

\* a new agent whose compressor keeps the last two messages
InitCompressLoad ==
    /\ InitCompress
    /\ recent_window_size = 2
    /\ system_prompt = SystemPrompt
    /\ messages = PromptMessages(system_prompt)
    /\ summaries = <<>>

SpecCompressLoad == InitCompressLoad /\ [][NextCompressLoad]_vars

(* ------------------- StickyFactsManager driven directly ---------------- *)
\* the longest transcript handed to extract_facts
MaxFactsLen == 3

\* the answers of the extraction call: those of the session, a document
\* whose only category is null, a list
ManagerResponses ==
    ExtractionResponses \cup {<<"{constraints:null}">>, <<"[g1]">>}

\* Agent.add_message
FactsAddMessage ==
    /\ pc.at = "idle"
    /\ Len(messages) < MaxFactsLen
    /\ messages' = Extend(messages, 1)
    /\ last' = Observed("add_message", 0, TRUE, 0, FALSE)
    /\ UNCHANGED <<expertVars, strategy, compression_enabled, model, system_prompt, session_id,
                   pc, compVars, facts, bmVars, dbVars, summarize_calls, snap,
                   cp_source, branch_live, turn_count, submission>>

\* StickyFactsManager.extract_facts(messages) with the answer the extraction
\* call gets when it is issued
FactsExtract(response) ==
    /\ pc.at = "idle"
    /\ \E r \in {extract_facts(messages, facts, response)} :
         /\ facts' = r.facts
         /\ last' = Observed("extract_facts", 0, TRUE, r.calls, r.parsed)
    /\ UNCHANGED <<expertVars, agentVars, compVars, bmVars, dbVars, summarize_calls, snap,
                   cp_source, branch_live, turn_count, submission>>

\* StickyFactsManager.get_facts_prompt(); the text it returns is recorded as
\* the content of a system message; an exception ends the caller
FactsPrompt ==
    /\ pc.at = "idle"
    /\ submission' = IF facts_prompt_raises(facts) THEN submission
                     ELSE <<Msg("system", get_facts_prompt(facts))>>
    /\ pc' = IF facts_prompt_raises(facts)
             THEN [at |-> "crashed", user_input |-> <<>>] ELSE pc
    /\ last' = Observed("get_facts_prompt", 0, ~facts_prompt_raises(facts), 0,
                        FALSE)
    /\ UNCHANGED <<expertVars, strategy, compression_enabled, model, system_prompt, messages,
                   session_id, compVars, facts, bmVars, dbVars, summarize_calls,
                   snap, cp_source, branch_live, turn_count>>

\* an Agent with the sticky-facts strategy, constructed with or without a
\* system prompt
InitFacts ==
    /\ strategy = "sticky_facts"
    /\ compression_enabled = FALSE
    /\ model = DefaultModel
    /\ system_prompt \in {NoPrompt, SystemPrompt}
    /\ messages = PromptMessages(system_prompt)
    /\ session_id = NoSession
    /\ pc = Idle
    /\ recent_window_size = DefaultWindow
    /\ summary_batch_size = DefaultBatch
    /\ summaries = <<>>
    /\ original_tokens = 0
    /\ compressed_tokens = 0
    /\ tokens_saved = 0
    /\ facts = EmptyFacts
    /\ checkpoints = <<>>
    /\ branches = <<>>
    /\ current_branch = NoBranch
    /\ checkpoint_counter = 0
    /\ branch_counter = 0
    /\ branch_saved_count = <<>>
    /\ db_sessions = <<>>
    /\ db_session_seq = 0
    /\ db_messages = <<>>
    /\ db_sticky_facts = {}
    /\ db_checkpoints = <<>>
    /\ db_branches = <<>>
    /\ db_branch_messages = <<>>
    /\ last = Observed("init", 0, TRUE, 0, FALSE)
    /\ summarize_calls = <<>>
    /\ snap = NoSnapshot
    /\ cp_source = <<>>
    /\ branch_live = <<>>
    /\ turn_count = 0
    /\ submission = <<>>
    /\ NoExpertTurn

NextFacts ==
    \/ FactsAddMessage
    \/ \E response \in ManagerResponses : FactsExtract(response)
    \/ FactsPrompt

SpecFacts == InitFacts /\ [][NextFacts]_vars

(* ---------------------- TokenCounter driven directly ------------------- *)
\* the longest message list handed to count_messages
MaxCountLen == 4

\* the contents of the messages counted: no token, one token, two tokens
CountedTexts == {<<>>, <<"u1">>, <<"u2", "more">>}

\* Agent.add_message with a content of any length
CountAddMessage(text) ==
    /\ Len(messages) < MaxCountLen
    /\ messages' = Append(messages, Msg(ApiMessage(messages).role, text))
    /\ last' = Observed("add_message", 0, TRUE, 0, FALSE)
    /\ UNCHANGED <<expertVars, strategy, compression_enabled, model, system_prompt, session_id,
                   pc, compVars, facts, bmVars, dbVars, summarize_calls, snap,
                   cp_source, branch_live, turn_count, submission>>

\* TokenCounter.count_messages(messages); the result is recorded
CountMessages ==
    /\ last' = Observed("count_messages", count_messages(messages), TRUE, 0, FALSE)
    /\ UNCHANGED <<expertVars, agentVars, compVars, facts, bmVars, dbVars, summarize_calls,
                   snap, cp_source, branch_live, turn_count, submission>>

\* an Agent constructed with or without a system prompt
InitCount ==
    /\ strategy = "sliding_window"
    /\ compression_enabled = TRUE
    /\ model = DefaultModel
    /\ system_prompt \in {NoPrompt, SystemPrompt}
    /\ messages = PromptMessages(system_prompt)
    /\ session_id = NoSession
    /\ pc = Idle
    /\ recent_window_size = DefaultWindow
    /\ summary_batch_size = DefaultBatch
    /\ summaries = <<>>
    /\ original_tokens = 0
    /\ compressed_tokens = 0
    /\ tokens_saved = 0
    /\ facts = EmptyFacts
    /\ checkpoints = <<>>
    /\ branches = <<>>
    /\ current_branch = NoBranch
    /\ checkpoint_counter = 0
    /\ branch_counter = 0
    /\ branch_saved_count = <<>>
    /\ db_sessions = <<>>
    /\ db_session_seq = 0
    /\ db_messages = <<>>
    /\ db_sticky_facts = {}
    /\ db_checkpoints = <<>>
    /\ db_branches = <<>>
    /\ db_branch_messages = <<>>
    /\ last = Observed("init", 0, TRUE, 0, FALSE)
    /\ summarize_calls = <<>>
    /\ snap = NoSnapshot
    /\ cp_source = <<>>
    /\ branch_live = <<>>
    /\ turn_count = 0
    /\ submission = <<>>
    /\ NoExpertTurn

NextCount ==
    \/ \E text \in CountedTexts : CountAddMessage(text)
    \/ CountMessages

SpecCount == InitCount /\ [][NextCount]_vars

(* --------------------- HistoryManager driven directly ------------------ *)
\* the sessions ever created in one database and the rows of its messages
\* table
MaxSessions == 2
MaxStoredMessages == 2

\* create_session: AUTOINCREMENT hands out the id after the largest one ever
\* used
create_session(sessions, seq, st, m, sp) == Put(sessions, seq + 1, SessionRow(st, m, sp))

\* the rows of a table that do not belong to session sid
OtherRows(tbl, sid) == LET T(r) == r.session_id # sid IN SelectSeq(tbl, T)

\* the identifier of the checkpoint and of the branch the caller creates in
\* session sid; identifiers carry their creation time and differ between
\* sessions
StoreId(sid) == 10 * sid + 1

\* the branch identifiers stored for session sid
SessionBranchIds(tbl, sid) ==
    {tbl[i].branch_id : i \in {j \in DOMAIN tbl : tbl[j].session_id = sid}}

\* FOREIGN KEY (session_id) REFERENCES sessions(id): the INSERT raises
ForeignKeyFails(sid) == sid \notin DOMAIN db_sessions

\* Agent.create_session: the session row carries the agent's strategy, model
\* and system prompt
StoreCreateSession ==
    /\ db_session_seq < MaxSessions
    /\ db_sessions' = create_session(db_sessions, db_session_seq, strategy, model,
                                     system_prompt)
    /\ db_session_seq' = db_session_seq + 1
    /\ last' = Observed("create_session", db_session_seq + 1, TRUE, 0, FALSE)
    /\ UNCHANGED <<expertVars, agentVars, compVars, facts, bmVars, db_messages, db_sticky_facts,
                   db_checkpoints, db_branches, db_branch_messages,
                   summarize_calls, snap, cp_source, branch_live, turn_count,
                   submission>>

\* save_message with the role next in the alternation or, when system, with
\* the role "system"; a failing INSERT (foreign key, CHECK on role) raises
\* and the transaction is rolled back
StoreSaveMessage(sid, system, tokens) ==
    LET role == IF system THEN "system" ELSE ApiMessage(db_messages).role
        fails == ForeignKeyFails(sid) \/ role \notin {"user", "assistant"}
        content == <<"m", ToString(Len(db_messages) + 1)>>
    IN  /\ Len(db_messages) < MaxStoredMessages
        /\ db_messages' = IF fails THEN db_messages
                          ELSE save_message_rows(db_messages, sid, role, content,
                                                 tokens)
        /\ db_sessions' = IF fails THEN db_sessions
                          ELSE save_message_stats(db_sessions, sid, tokens)
        /\ last' = Observed("save_message", sid, ~fails, 0, FALSE)
        /\ UNCHANGED <<expertVars, agentVars, compVars, facts, bmVars, db_session_seq,
                       db_sticky_facts, db_checkpoints, db_branches,
                       db_branch_messages, summarize_calls, snap, cp_source,
                       branch_live, turn_count, submission>>

\* save_sticky_facts with a store that holds one fact
StoreSaveFacts(sid) ==
    /\ db_sticky_facts' =
           IF ForeignKeyFails(sid) THEN db_sticky_facts
           ELSE save_sticky_facts(db_sticky_facts, sid, Dict({<<"goal", "", "g1">>}))
    /\ last' = Observed("save_sticky_facts", sid, ~ForeignKeyFails(sid), 0, FALSE)
    /\ UNCHANGED <<expertVars, agentVars, compVars, facts, bmVars, db_sessions, db_session_seq,
                   db_messages, db_checkpoints, db_branches, db_branch_messages,
                   summarize_calls, snap, cp_source, branch_live, turn_count,
                   submission>>

\* save_checkpoint; UNIQUE(session_id, checkpoint_id)
StoreSaveCheckpoint(sid) ==
    LET fails == ForeignKeyFails(sid)
                    \/ \E i \in DOMAIN db_checkpoints :
                          /\ db_checkpoints[i].session_id = sid
                          /\ db_checkpoints[i].checkpoint_id = StoreId(sid)
    IN  /\ db_checkpoints' = IF fails THEN db_checkpoints
                             ELSE save_checkpoint(db_checkpoints, sid, StoreId(sid), 0)
        /\ last' = Observed("save_checkpoint", sid, ~fails, 0, FALSE)
        /\ UNCHANGED <<expertVars, agentVars, compVars, facts, bmVars, db_sessions,
                       db_session_seq, db_messages, db_sticky_facts, db_branches,
                       db_branch_messages, summarize_calls, snap, cp_source,
                       branch_live, turn_count, submission>>

\* save_branch; UNIQUE(session_id, branch_id)
StoreSaveBranch(sid) ==
    LET fails == ForeignKeyFails(sid)
                    \/ StoreId(sid) \in SessionBranchIds(db_branches, sid)
    IN  /\ db_branches' = IF fails THEN db_branches
                          ELSE save_branch(db_branches, sid, StoreId(sid),
                                           StoreId(sid), FALSE)
        /\ last' = Observed("save_branch", sid, ~fails, 0, FALSE)
        /\ UNCHANGED <<expertVars, agentVars, compVars, facts, bmVars, db_sessions,
                       db_session_seq, db_messages, db_sticky_facts,
                       db_checkpoints, db_branch_messages, summarize_calls, snap,
                       cp_source, branch_live, turn_count, submission>>

\* save_branch_message with sequence 0 for the branch of session sid
StoreSaveBranchMessage(sid) ==
    LET fails == InsertFails(db_branch_messages, StoreId(sid), 0, "user")
    IN  /\ db_branch_messages' =
               IF fails THEN db_branch_messages
               ELSE save_branch_message(db_branch_messages, StoreId(sid), 0, "user",
                                        <<"u1">>)
        /\ last' = Observed("save_branch_message", sid, ~fails, 0, FALSE)
        /\ UNCHANGED <<expertVars, agentVars, compVars, facts, bmVars, db_sessions,
                       db_session_seq, db_messages, db_sticky_facts,
                       db_checkpoints, db_branches, summarize_calls, snap,
                       cp_source, branch_live, turn_count, submission>>

\* delete_session: DELETE FROM sessions with foreign keys on; the tables
\* declared with ON DELETE CASCADE lose the rows of the session, and
\* branch_messages, declared without a foreign key, keeps its rows
StoreDeleteSession(sid) ==
    /\ db_sessions' = [x \in DOMAIN db_sessions \ {sid} |-> db_sessions[x]]
    /\ db_messages' = OtherRows(db_messages, sid)
    /\ db_sticky_facts' = {r \in db_sticky_facts : r.session_id # sid}
    /\ db_checkpoints' = OtherRows(db_checkpoints, sid)
    /\ db_branches' = OtherRows(db_branches, sid)
    /\ last' = Observed("delete_session", sid, TRUE, 0, FALSE)
    /\ UNCHANGED <<expertVars, agentVars, compVars, facts, bmVars, db_session_seq,
                   db_branch_messages, summarize_calls, snap, cp_source,
                   branch_live, turn_count, submission>>

\* a database in which the CLI created its first session
InitStore == Init /\ strategy = "branching"

NextStore ==
    \/ StoreCreateSession
    \/ \E sid \in 1 .. MaxSessions :
         \E system \in BOOLEAN :
           \E tokens \in {NoTokenCount, 2} : StoreSaveMessage(sid, system, tokens)
    \/ StoreSaveFacts(FirstSession)
    \/ StoreSaveCheckpoint(FirstSession)
    \/ StoreSaveBranch(FirstSession)
    \/ StoreSaveBranchMessage(FirstSession)
    \/ \E sid \in 1 .. MaxSessions : StoreDeleteSession(sid)

SpecStore == InitStore /\ [][NextStore]_vars

(* ---------------------- group of experts, one chat -------------------- *)
\* inputs one chat handles
MaxExpertTurns == 1

\* handle_input, lines 47-51: one call per expert is submitted to the pool
\* of three workers, so all three start
ExpertsSubmit(text) ==
    /\ pc.at = "idle"
    /\ turn_count < MaxExpertTurns
    /\ futures' = [e \in EXPERTS |->
                      [state |-> "running", chunks |-> <<>>, usage |-> NoUsage]]
    /\ pc' = [at |-> "consulting", user_input |-> text]
    /\ turn_count' = turn_count + 1
    /\ expert_calls' = Append(expert_calls, [e \in EXPERTS |-> NoUsage])
    /\ last' = Observed("submit", 0, TRUE, 0, FALSE)
    /\ UNCHANGED <<strategy, compression_enabled, model, system_prompt, messages,
                   session_id, compVars, facts, bmVars, dbVars, summarize_calls,
                   snap, cp_source, branch_live, submission, console, tracker>>

\* get_expert_response of expert e returns in its worker thread: the chunks
\* and the usage are locals of the call and become the future's result
ExpertReturn(e, reply) ==
    /\ futures[e].state = "running"
    /\ futures' = [futures EXCEPT ![e] = [state |-> "finished",
                                          chunks |-> reply.chunks,
                                          usage |-> reply.usage]]
    /\ expert_calls' = [expert_calls EXCEPT ![Len(expert_calls)][e] = reply.usage]
    /\ last' = Observed("expert_return", 0, TRUE, 1, FALSE)
    /\ UNCHANGED <<agentVars, compVars, facts, bmVars, dbVars, summarize_calls,
                   snap, cp_source, branch_live, turn_count, submission, console,
                   tracker>>

\* the completion call of expert e raises in its worker thread
ExpertRaise(e) ==
    /\ futures[e].state = "running"
    /\ futures' = [futures EXCEPT ![e].state = "raised"]
    /\ last' = Observed("expert_raise", 0, FALSE, 1, FALSE)
    /\ UNCHANGED <<agentVars, compVars, facts, bmVars, dbVars, summarize_calls,
                   snap, cp_source, branch_live, turn_count, submission, console,
                   tracker, expert_calls>>

\* handle_input, lines 54-58, in the main thread: as_completed yields a
\* finished future, its header and chunks are shown and its usage is added
ExpertDisplay(e) ==
    /\ pc.at = "consulting"
    /\ futures[e].state = "finished"
    /\ console' = Append(console, [expert |-> e, chunks |-> futures[e].chunks])
    /\ tracker' = add_usage(tracker, futures[e].usage)
    /\ futures' = [futures EXCEPT ![e].state = "yielded"]
    /\ last' = Observed("display", 0, TRUE, 0, FALSE)
    /\ UNCHANGED <<agentVars, compVars, facts, bmVars, dbVars, summarize_calls,
                   snap, cp_source, branch_live, turn_count, submission,
                   expert_calls>>

\* line 55: future.result() re-raises the exception of expert e; leaving
\* the with block of line 47 waits for the workers still running
ExpertResultRaises(e) ==
    /\ pc.at = "consulting"
    /\ futures[e].state = "raised"
    /\ pc' = [pc EXCEPT !.at = "unwinding"]
    /\ last' = Observed("result_raises", 0, FALSE, 0, FALSE)
    /\ UNCHANGED <<strategy, compression_enabled, model, system_prompt, messages,
                   session_id, compVars, facts, bmVars, dbVars, summarize_calls,
                   snap, cp_source, branch_live, turn_count, submission,
                   expertVars>>

\* the exception leaves handle_input and chat_loop, which catches
\* KeyboardInterrupt only (utils.py lines 87-95)
ExpertsCrash ==
    /\ pc.at = "unwinding"
    /\ \A e \in EXPERTS : futures[e].state # "running"
    /\ pc' = [at |-> "crashed", user_input |-> <<>>]
    /\ last' = Observed("experts_error", 0, FALSE, 0, FALSE)
    /\ UNCHANGED <<strategy, compression_enabled, model, system_prompt, messages,
                   session_id, compVars, facts, bmVars, dbVars, summarize_calls,
                   snap, cp_source, branch_live, turn_count, submission,
                   expertVars>>

\* line 60: every future was yielded and handle_input returns
ExpertsDone ==
    /\ pc.at = "consulting"
    /\ \A e \in EXPERTS : futures[e].state = "yielded"
    /\ futures' = NoFutures
    /\ pc' = Idle
    /\ last' = Observed("experts_done", 0, TRUE, 0, FALSE)
    /\ UNCHANGED <<strategy, compression_enabled, model, system_prompt, messages,
                   session_id, compVars, facts, bmVars, dbVars, summarize_calls,
                   snap, cp_source, branch_live, turn_count, submission, console,
                   tracker, expert_calls>>

\* chat_loop of strategy 4: no Agent is used
InitExperts ==
    /\ InitCount
    /\ system_prompt = NoPrompt

NextExperts ==
    \/ \E text \in UserTexts : ExpertsSubmit(text)
    \/ \E e \in EXPERTS : \E reply \in ExpertReplies : ExpertReturn(e, reply)
    \/ \E e \in EXPERTS : ExpertRaise(e)
    \/ \E e \in EXPERTS : ExpertDisplay(e)
    \/ \E e \in EXPERTS : ExpertResultRaises(e)
    \/ ExpertsCrash
    \/ ExpertsDone

SpecExperts == InitExperts /\ [][NextExperts]_vars

(* ------------------- Agent with any flags, used directly -------------- *)
\* Agent.toggle_compression called by /compression on|off (cli.py line 280):
\* switching off resets the compressor, switching on keeps or creates it
toggle_compression(enabled) ==
    /\ compression_enabled' = enabled
    /\ IF ~enabled
       THEN /\ summaries' = <<>>
            /\ original_tokens' = 0
            /\ compressed_tokens' = 0
            /\ tokens_saved' = 0
       ELSE UNCHANGED <<summaries, original_tokens, compressed_tokens, tokens_saved>>

CmdCompression(enabled) ==
    /\ pc.at = "idle"
    /\ toggle_compression(enabled)
    /\ last' = Observed("compression", IF enabled THEN 1 ELSE 0, TRUE, 0, FALSE)
    /\ UNCHANGED <<strategy, model, system_prompt, messages, session_id, pc,
                   recent_window_size, summary_batch_size, facts, bmVars, dbVars,
                   summarize_calls, snap, cp_source, branch_live, turn_count,
                   submission, expertVars>>

\* an Agent constructed with any strategy and any compression flag, with no
\* session, either new or after as many exchanges as fill the recent window
InitFlags ==
    /\ strategy \in Strategies
    /\ compression_enabled \in BOOLEAN
    /\ model = DefaultModel
    /\ system_prompt = SystemPrompt
    /\ messages \in {InitialMessages, Extend(InitialMessages, DefaultWindow)}
    /\ session_id = NoSession
    /\ pc = Idle
    /\ recent_window_size = DefaultWindow
    /\ summary_batch_size = DefaultBatch
    /\ summaries = <<>>
    /\ original_tokens = 0
    /\ compressed_tokens = 0
    /\ tokens_saved = 0
    /\ facts = EmptyFacts
    /\ checkpoints = <<>>
    /\ branches = <<>>
    /\ current_branch = NoBranch
    /\ checkpoint_counter = 0
    /\ branch_counter = 0
    /\ branch_saved_count = <<>>
    /\ db_sessions = <<>>
    /\ db_session_seq = 0
    /\ db_messages = <<>>
    /\ db_sticky_facts = {}
    /\ db_checkpoints = <<>>
    /\ db_branches = <<>>
    /\ db_branch_messages = <<>>
    /\ last = Observed("init", 0, TRUE, 0, FALSE)
    /\ summarize_calls = <<>>
    /\ snap = NoSnapshot
    /\ cp_source = <<>>
    /\ branch_live = <<>>
    /\ turn_count = 0
    /\ submission = <<>>
    /\ NoExpertTurn

NextFlags ==
    \/ \E text \in UserTexts :
         \E response \in (IF strategy = "sticky_facts" THEN ExtractionResponses
                          ELSE {<<>>}) :
           \E replies \in SummaryReplies :
             \/ TurnStart(text, response, replies)
             \/ TurnReplyError(text, response, replies)
    \/ \E reply \in ReplyTexts : TurnFinish(reply)
    \/ TurnCancel
    \/ \E enabled \in BOOLEAN : CmdCompression(enabled)

SpecFlags == InitFlags /\ [][NextFlags]_vars

(* ------------------- the CLI run with /sessions ------------------------ *)
\* /sessions, "Create new session" (cli.py lines 207-213 and 40-43):
\* Agent.create_session INSERTs the session, takes its id and hands it to the
\* branching manager (agent.py lines 185-198); nothing else is assigned
CmdNewSession ==
    /\ pc.at = "idle"
    /\ db_session_seq < MaxSessions
    /\ db_sessions' = create_session(db_sessions, db_session_seq, strategy, model,
                                     system_prompt)
    /\ db_session_seq' = db_session_seq + 1
    /\ session_id' = db_session_seq + 1
    /\ last' = Observed("create_session", db_session_seq + 1, TRUE, 0, FALSE)
    /\ UNCHANGED <<strategy, compression_enabled, model, system_prompt, messages,
                   pc, compVars, facts, bmVars, db_messages, db_sticky_facts,
                   db_checkpoints, db_branches, db_branch_messages,
                   summarize_calls, snap, cp_source, branch_live, turn_count,
                   submission, expertVars>>

\* the CLI run in which the user may switch to a new or a stored session
NextSwitch ==
    \/ Next
    \/ CmdNewSession
    \/ \E sid \in 1 .. MaxSessions : LoadSession(sid)

SpecSwitch == Init /\ [][NextSwitch]_vars

(* ------------------- the sticky_facts table, row by row ---------------- *)
\* A Python dict is the sequence of its <<key, value>> pairs in insertion
\* order, with distinct keys.  A value of the Fact Store is a str or a
\* nested dict of str.
Text(s) == [kind |-> "str", text |-> s, pairs |-> <<>>]
NestedDict(pairs) == [kind |-> "dict", text |-> "", pairs |-> pairs]

PyKeys(d) == {d[i][1] : i \in DOMAIN d}
PyIndex(d, k) == CHOOSE i \in DOMAIN d : d[i][1] = k
PyGet(d, k) == d[PyIndex(d, k)][2]

\* d[k] = v
PySet(d, k, v) ==
    IF k \in PyKeys(d) THEN [d EXCEPT ![PyIndex(d, k)] = <<k, v>>]
    ELSE Append(d, <<k, v>>)

\* bool(value) of a str or a dict
PyTruthy(v) == IF v.kind = "dict" THEN v.pairs # <<>> ELSE v.text # ""

\* the entries of a Fact Store; two stores are == in Python exactly when
\* their entries are the same, whatever the insertion order
StoreEntries(F) ==
    UNION {LET c == F[i][1]
               v == F[i][2]
           IN  IF v.kind = "dict"
               THEN {<<c, "dict", "", "">>}
                        \cup {<<c, "item", v.pairs[j][1], v.pairs[j][2]>> :
                                 j \in DOMAIN v.pairs}
               ELSE {<<c, "str", "", v.text>>} : i \in DOMAIN F}

PyEq(F, G) == StoreEntries(F) = StoreEntries(G)

\* the dicts with keys from K and values from V
DictsOver(K, V) ==
    UNION {{d \in [1 .. n -> K \X V] :
               \A i, j \in 1 .. n : d[i][1] = d[j][1] => i = j} :
           n \in 0 .. Cardinality(K)}

\* the Fact Stores handed to save_sticky_facts
FactTexts == {"", "g1"}
FactKeys == {"", "db"}
FactValues ==
    {Text(s) : s \in FactTexts}
        \cup {NestedDict(d) : d \in DictsOver(FactKeys, {"sqlite"})}
        \cup {NestedDict(<<<<"db", "">>>>)}
FactStores == DictsOver({"goal", "decisions"}, FactValues)

\* the stores another session was saved with
OtherFactStores ==
    {<<>>, <<<<"goal", Text("g2")>>>>,
     <<<<"decisions", NestedDict(<<<<"db", "pg">>>>)>>, <<"goal", Text("g2")>>>>}

\* values are non-empty strings or non-empty nested dicts with non-empty keys
ValidStore(F) ==
    \A i \in DOMAIN F :
        /\ PyTruthy(F[i][2])
        /\ F[i][2].kind = "dict" => "" \notin PyKeys(F[i][2].pairs)

\* a row of sticky_facts; key is <<>> for NULL and <<k>> for the text k, and
\* the rows of the table are kept in rowid order
FactRow(sid, category, key, value, now) ==
    [session_id |-> sid, category |-> category, key |-> key, value |-> value,
     updated_at |-> now]

\* save_sticky_facts, lines 223-237: the rows inserted for one item
ValueRows(sid, category, v, now) ==
    IF ~PyTruthy(v) THEN <<>>
    ELSE IF v.kind = "dict"
         THEN [j \in DOMAIN v.pairs |->
                  FactRow(sid, category, <<v.pairs[j][1]>>, v.pairs[j][2], now)]
         ELSE <<FactRow(sid, category, <<>>, v.text, now)>>

RECURSIVE StoreRows(_, _, _)
StoreRows(sid, F, now) ==
    IF F = <<>> THEN <<>>
    ELSE ValueRows(sid, F[1][1], F[1][2], now) \o StoreRows(sid, Tail(F), now)

\* a save that leaves the session's earlier rows in the table
save_sticky_fact_rows_append(tbl, sid, F, now) == tbl \o StoreRows(sid, F, now)

\* HistoryManager.save_sticky_facts on the table with all its columns: the
\* DELETE, then one INSERT per row
save_sticky_fact_rows(tbl, sid, F, now) ==
    OtherRows(tbl, sid) \o StoreRows(sid, F, now)

\* load_sticky_facts, lines 250-263: one row more; a nested row of a
\* category that holds a str raises TypeError
LoadFactRow(acc, row) ==
    IF ~acc.ok THEN acc
    ELSE IF row.key # <<>> /\ row.key[1] # ""
         THEN LET d == IF row.category \in PyKeys(acc.facts) THEN acc.facts
                       ELSE PySet(acc.facts, row.category, NestedDict(<<>>))
                  cur == PyGet(d, row.category)
              IN  IF cur.kind # "dict" THEN [ok |-> FALSE, facts |-> d]
                  ELSE [ok |-> TRUE,
                        facts |-> PySet(d, row.category,
                                     NestedDict(PySet(cur.pairs, row.key[1],
                                                      row.value)))]
         ELSE [ok |-> TRUE, facts |-> PySet(acc.facts, row.category, Text(row.value))]

RECURSIVE LoadFactRows(_, _)
LoadFactRows(acc, rows) ==
    IF rows = <<>> THEN acc
    ELSE LoadFactRows(LoadFactRow(acc, Head(rows)), Tail(rows))

\* HistoryManager.load_sticky_facts on the table with all its columns
load_sticky_fact_rows(tbl, sid) ==
    LoadFactRows([ok |-> TRUE, facts |-> <<>>], SessionRows(tbl, sid))

\* the sessions of the database
FactSessions == {FirstSession, FirstSession + 1}

\* int(datetime.now().timestamp()) of a save: not before the latest row
FactStamps ==
    {now \in {Epoch, Epoch + 1} :
        \A i \in DOMAIN db_sticky_facts : db_sticky_facts[i].updated_at <= now}

\* Agent.save_facts on the agent of session sid holding the store F
FactRowsSave(sid, F, now) ==
    /\ pc.at = "idle"
    /\ facts' = F
    /\ db_sticky_facts' = save_sticky_fact_rows(db_sticky_facts, sid, F, now)
    /\ last' = Observed("save_sticky_facts", sid, TRUE, 0, FALSE)
    /\ UNCHANGED <<expertVars, agentVars, compVars, bmVars, db_sessions, db_session_seq,
                   db_messages, db_checkpoints, db_branches, db_branch_messages,
                   summarize_calls, snap, cp_source, branch_live, turn_count,
                   submission>>

\* Agent.load_session, lines 236-240: the loaded store replaces the agent's
\* when it is not empty
FactRowsLoad(sid) ==
    /\ pc.at = "idle"
    /\ \E r \in {load_sticky_fact_rows(db_sticky_facts, sid)} :
         /\ facts' = IF r.ok /\ r.facts # <<>> THEN r.facts ELSE facts
         /\ pc' = IF r.ok THEN pc ELSE [at |-> "crashed", user_input |-> <<>>]
         /\ last' = Observed("load_sticky_facts", sid, r.ok, 0, FALSE)
    /\ UNCHANGED <<expertVars, strategy, compression_enabled, model, system_prompt, messages,
                   session_id, compVars, bmVars, dbVars, summarize_calls, snap,
                   cp_source, branch_live, turn_count, submission>>

\* a database with two sticky-facts sessions, the second one saved earlier
InitFactRows ==
    /\ strategy = "sticky_facts"
    /\ compression_enabled = FALSE
    /\ model = DefaultModel
    /\ system_prompt = SystemPrompt
    /\ messages = InitialMessages
    /\ session_id = FirstSession
    /\ pc = Idle
    /\ recent_window_size = DefaultWindow
    /\ summary_batch_size = DefaultBatch
    /\ summaries = <<>>
    /\ original_tokens = 0
    /\ compressed_tokens = 0
    /\ tokens_saved = 0
    /\ facts = <<>>
    /\ checkpoints = <<>>
    /\ branches = <<>>
    /\ current_branch = NoBranch
    /\ checkpoint_counter = 0
    /\ branch_counter = 0
    /\ branch_saved_count = <<>>
    /\ db_sessions = [sid \in FactSessions |-> SessionRow(strategy, model, system_prompt)]
    /\ db_session_seq = FirstSession + 1
    /\ db_messages = <<>>
    /\ \E F \in OtherFactStores :
         db_sticky_facts = save_sticky_fact_rows(<<>>, FirstSession + 1, F, Epoch)
    /\ db_checkpoints = <<>>
    /\ db_branches = <<>>
    /\ db_branch_messages = <<>>
    /\ last = Observed("init", 0, TRUE, 0, FALSE)
    /\ summarize_calls = <<>>
    /\ snap = NoSnapshot
    /\ cp_source = <<>>
    /\ branch_live = <<>>
    /\ turn_count = 0
    /\ submission = <<>>
    /\ NoExpertTurn

NextFactRows ==
    \/ \E F \in FactStores : \E now \in FactStamps :
         FactRowsSave(FirstSession, F, now)
    \/ \E F \in OtherFactStores : \E now \in FactStamps :
         FactRowsSave(FirstSession + 1, F, now)
    \/ \E sid \in FactSessions : FactRowsLoad(sid)

SpecFactRows == InitFactRows /\ [][NextFactRows]_vars

(* ------------------------- claims: branching -------------------------- *)
ActiveBranchRows(sid) ==
    {i \in DOMAIN db_branches :
        db_branches[i].session_id = sid /\ db_branches[i].is_active}

\* the messages of branch b past its checkpoint's message index
PastCheckpoint(b) ==
    LET idx == checkpoints[branches[b].checkpoint_id].message_index
        m == branches[b].messages
    IN  IF Len(m) > idx THEN SubSeq(m, idx + 1, Len(m)) ELSE <<>>

\* C1: for every branch B of checkpoint C, the first C.message_index
\* messages of B are the first C.message_index messages of the transcript C
\* was created on.
C1_PrefixImmutable ==
    \A b \in DOMAIN branches :
        LET c == branches[b].checkpoint_id
            idx == checkpoints[c].message_index
        IN  /\ Len(branches[b].messages) >= idx
            /\ SubSeq(branches[b].messages, 1, idx) = SubSeq(cp_source[c], 1, idx)

\* C2: over any sequence of update_current_branch calls with transcripts of
\* non-decreasing length, the saved rows of a branch are exactly its
\* messages past the checkpoint's message index, each once, in order, with
\* sequence numbers 0, 1, 2, ...; a call with a transcript of unchanged
\* length therefore adds no row.
C2_PersistedExactlyOnce ==
    \A b \in DOMAIN branches :
        LET rows == BranchRows(db_branch_messages, b)
            new == PastCheckpoint(b)
        IN  /\ Len(rows) = Len(new)
            /\ \A k \in DOMAIN rows :
                   /\ rows[k].sequence = k - 1
                   /\ rows[k].role = new[k].role
                   /\ rows[k].content = new[k].content

\* C2 witness: the transcript was handed over again unchanged after two of
\* its messages had been saved for the current branch.
C2_Witness ==
    /\ last.op = "update" /\ last.arg = 0 /\ last.ok
    /\ HasCurrentBranch
    /\ Len(BranchRows(db_branch_messages, current_branch)) >= 2

\* C3: at most one persisted branch row of the session is active, and after
\* a successful switch_branch(b) the active row is the row of b.
C3_OneActiveBranch ==
    /\ Cardinality(ActiveBranchRows(session_id)) <= 1
    /\ (last.op = "branch_switch" /\ last.ok) =>
           {db_branches[i].branch_id : i \in ActiveBranchRows(session_id)}
               = {last.arg}

\* C3 witness: a second branch was switched to after the first one had been
\* current during a turn.
C3_Witness ==
    /\ last.op = "branch_switch" /\ last.ok /\ last.arg = 2
    /\ Len(db_branches) = 2
    /\ \E i \in DOMAIN db_branch_messages : db_branch_messages[i].branch_id = 1

\* C4: switching from another branch back to B returns the transcript as it
\* was when B was last current: B's initial messages followed by every
\* message appended by the turns taken on B.
C4_SwitchBackReturnsAppended ==
    [][(current_branch # NoBranch /\ current_branch' # current_branch)
          => messages' = branch_live[current_branch']]_vars

(* --------------------------- claims: turns ---------------------------- *)
\* C5: a turn cancelled while the reply streams leaves the transcript, the
\* Fact Store, the summaries, the saved session messages and the saved
\* branch messages as they were before the turn started.
C5_CancelIsNoOp ==
    [][(pc.at = "streaming" /\ pc'.at = "idle" /\ last'.op = "cancel")
          => /\ messages' = snap.messages
             /\ facts' = snap.facts
             /\ summaries' = snap.summaries
             /\ db_messages' = snap.db_messages
             /\ db_branch_messages' = snap.db_branch_messages]_vars

(* ------------------------ claims: compression ------------------------- *)
ConversationCount == Len(SelectSeqRole(messages, FALSE))

\* C6: compress on a transcript with at most recent_window_size
\* conversational messages returns the transcript itself, issues no
\* summarization call and leaves the summaries as they were.
C6_ShortIsIdentity ==
    [][(last'.op = "compress" /\ ConversationCount <= recent_window_size)
          => /\ submission' = messages
             /\ summaries' = summaries
             /\ summarize_calls' = summarize_calls]_vars

\* C6 witness: compress returned a short transcript as it is while the
\* compressor held a summary.
C6_Witness ==
    /\ last.op = "compress"
    /\ ConversationCount = recent_window_size
    /\ summaries # <<>>
    /\ submission = messages

\* C7: compress called again on the transcript it has just been called on
\* issues no summarization call and leaves the summaries as they were.
C7_SecondCompressIdle ==
    [][(last.op = "compress" /\ last'.op = "compress" /\ messages' = messages)
          => /\ summaries' = summaries
             /\ summarize_calls' = summarize_calls]_vars

\* C8: over the compress calls on a growing transcript, no conversational
\* message is in the input of two summarization calls.
C8_SummarizedAtMostOnce ==
    \A i, j \in DOMAIN summarize_calls :
        i < j => \A a \in DOMAIN summarize_calls[i] :
                    \A b \in DOMAIN summarize_calls[j] :
                        summarize_calls[i][a] # summarize_calls[j][b]

\* C9: for a transcript with more than recent_window_size conversational
\* messages, compress returns the system messages, then one system message
\* holding the summaries joined in order, then the last recent_window_size
\* conversational messages: system messages + 1 + recent_window_size in all.
C9_SubmissionShape ==
    LET sys == SelectSeqRole(messages, TRUE)
        conv == SelectSeqRole(messages, FALSE)
        n == Len(conv)
        w == recent_window_size
    IN  (last.op = "compress" /\ n > w) =>
            /\ Len(submission) = Len(sys) + 1 + w
            /\ SubSeq(submission, 1, Len(sys)) = sys
            /\ summaries # <<>>
            /\ submission[Len(sys) + 1] =
                   Msg("system", <<"Previous conversation summary:">>
                                     \o JoinSummaries(summaries))
            /\ SubSeq(submission, Len(sys) + 2, Len(submission))
                   = SubSeq(conv, n - w + 1, n)

\* C9 witness: compress returned a submission built from two different
\* summaries and a system prompt.
C9_Witness ==
    /\ last.op = "compress"
    /\ ConversationCount > recent_window_size
    /\ Len(summaries) >= 2 /\ summaries[1] # summaries[2]
    /\ SelectSeqRole(messages, TRUE) # <<>>
    /\ Len(submission) = 2 + recent_window_size

(* ------------------------ claims: sticky facts ------------------------ *)
\* C11: after an extraction call whose answer parsed, every category/key
\* that held a value in the Fact Store before the call is still in the
\* store (with the old or a new value).
C11_FactsPreserved ==
    (last.op = "turn_start" /\ last.calls = 1 /\ last.parsed
         /\ snap.facts.kind = "dict")
        => \A e \in {x \in snap.facts.items : x[3] # ""} :
               /\ facts.kind = "dict"
               /\ \E f \in facts.items : f[1] = e[1] /\ f[2] = e[2]

\* C10: when the answer of the extraction call does not parse, the Fact
\* Store is what it was before the call and the turn goes on to the reply.
C10_UnparsedLeavesFacts ==
    (last.op = "turn_start" /\ last.calls = 1 /\ ~last.parsed)
        => facts = snap.facts /\ pc.at = "streaming"

\* C10 witness: an unparseable answer arrived while the store was not empty.
C10_Witness ==
    /\ last.op = "turn_start" /\ last.calls = 1 /\ ~last.parsed
    /\ strategy = "sticky_facts"
    /\ facts # EmptyFacts
(* --------------------------- claims: the turn ------------------------- *)
\* C12: when the reply call of a turn fails, the transcript, the Fact Store,
\* the summaries and the persisted branch messages are what they were
\* before the turn started.
C12_ApiErrorLeavesState ==
    last.op = "reply_error"
        => /\ messages = snap.messages
           /\ facts = snap.facts
           /\ summaries = snap.summaries
           /\ db_branch_messages = snap.db_branch_messages

(* ---------------------------- claims: store --------------------------- *)
\* C13: delete_session(s) leaves no message, fact, checkpoint, branch or
\* branch-message row of s, and leaves the rows of every other session as
\* they were.
C13_DeleteRemovesAll ==
    [][last'.op = "delete_session"
          => LET s == last'.arg
             IN  /\ s \notin DOMAIN db_sessions'
                 /\ SessionMessages(db_messages', s) = <<>>
                 /\ \A r \in db_sticky_facts' : r.session_id # s
                 /\ OtherRows(db_checkpoints', s) = db_checkpoints'
                 /\ OtherRows(db_branches', s) = db_branches'
                 /\ \A b \in SessionBranchIds(db_branches, s) :
                        BranchRows(db_branch_messages', b) = <<>>
                 /\ OtherRows(db_messages', s) = OtherRows(db_messages, s)
                 /\ OtherRows(db_checkpoints', s) = OtherRows(db_checkpoints, s)
                 /\ OtherRows(db_branches', s) = OtherRows(db_branches, s)
                 /\ \A t \in DOMAIN db_sessions \ {s} :
                        /\ t \in DOMAIN db_sessions'
                        /\ db_sessions'[t] = db_sessions[t]]_vars

\* the token counts of the rows, a missing count taken as 0
RECURSIVE SumTokens(_)
SumTokens(rows) ==
    IF rows = <<>> THEN 0
    ELSE TokenOrZero(rows[1].token_count) + SumTokens(Tail(rows))

\* C19: the stored messages of every session carry the sequence numbers
\* 0..n-1 in the order they were saved, the session's message_count is n and
\* its total_tokens is the sum of the token counts, a missing count taken
\* as 0.
C19_MessageLog ==
    \A sid \in DOMAIN db_sessions :
        LET rows == SessionMessages(db_messages, sid)
        IN  /\ \A i \in DOMAIN rows : rows[i].sequence = i - 1
            /\ db_sessions[sid].message_count = Len(rows)
            /\ db_sessions[sid].total_tokens = SumTokens(rows)

\* a session with two saved messages, one of them saved without a token
\* count
C19_Witness ==
    /\ last.op = "save_message" /\ last.ok
    /\ \E sid \in DOMAIN db_sessions :
         LET rows == SessionMessages(db_messages, sid)
         IN  /\ Len(rows) = 2
             /\ \E i \in 1 .. 2 : rows[i].token_count = NoTokenCount
             /\ \E i \in 1 .. 2 : rows[i].token_count # NoTokenCount

(* --------------------------- claims: sessions ------------------------- *)
\* every turn started so far was completed: the session log holds its two
\* messages
AllTurnsCompleted ==
    Len(SessionMessages(db_messages, session_id)) = 2 * turn_count

\* C14: when a branching agent whose turns all completed is replaced by a
\* new agent that loads the session, the new agent holds the same
\* checkpoints, the same branches with the same message sequences, and the
\* same current branch.
C14_ReloadKeepsBranches ==
    [][(last'.op = "new_agent_load" /\ strategy = "branching" /\ pc.at = "idle"
            /\ AllTurnsCompleted)
          => /\ checkpoints' = checkpoints
             /\ branches' = branches
             /\ current_branch' = current_branch]_vars

\* the stored system message followed by the stored messages of session sid
StoredTranscript(sid) ==
    LET rows == SessionMessages(db_messages, sid)
    IN  [i \in 1 .. Len(rows) + 1 |->
            IF i = 1 THEN Msg("system", db_sessions[sid].system_prompt)
            ELSE Msg(rows[i - 1].role, rows[i - 1].content)]

LoadStep == last'.op \in {"new_agent_load", "load_session"}

\* a load of an unknown id changed nothing
FailedLoadFrame == UNCHANGED <<agentVars, compVars, facts, bmVars, dbVars>>

C15_NoSequenceCollision == last.op = "update" => last.ok

(* ---------------------- claims: branch commands ----------------------- *)
\* what the agent, its managers and the database hold
ProgramState == <<agentVars, compVars, facts, bmVars, dbVars>>

\* C16: createBranch with an unknown checkpoint id returns no id and changes
\* nothing: checkpoints, branches, counters, saved counts, the current
\* branch and every persisted row stay as they were, and nothing is raised.
C16_UnknownCheckpointNoOp ==
    [][(last'.op = "branch_create" /\ last'.arg \notin DOMAIN checkpoints)
          => (~last'.ok /\ UNCHANGED ProgramState)]_vars

\* an unknown checkpoint id was given while a checkpoint and a branch exist
C16_Witness ==
    /\ last.op = "branch_create" /\ ~last.ok
    /\ DOMAIN checkpoints # {}
    /\ DOMAIN branches # {}

IsPrefixOf(a, b) == Len(a) <= Len(b) /\ SubSeq(b, 1, Len(a)) = a

\* after /clear the transcript is the system message, or empty without a
\* system prompt
ClearedTranscript ==
    messages' = IF system_prompt = NoPrompt THEN <<>>
                ELSE <<Msg("system", system_prompt)>>

\* C20 as stated: every operation other than /clear leaves the transcript
\* it found as a prefix of the transcript it leaves; /clear leaves exactly
\* the system message.
C20_TranscriptGrows ==
    [][IF last'.op = "clear" THEN ClearedTranscript
       ELSE IsPrefixOf(messages, messages')]_vars

\* C20 amended: as stated, for every operation other than /clear, a branch
\* switch and a session load.
C20_TranscriptGrowsUnlessReplaced ==
    [][IF last'.op = "clear" THEN ClearedTranscript
       ELSE last'.op \notin {"branch_switch", "new_agent_load", "load_session"}
               => IsPrefixOf(messages, messages')]_vars

\* /clear was taken after a turn had made the transcript longer
C20_Witness ==
    /\ last.op = "clear"
    /\ turn_count >= 1
    /\ messages = <<Msg("system", system_prompt)>>

(* ------------------------- claims: branch counts ---------------------- *)
\* list_branches, lines 121-122: the per-branch count it reports
messages_after_checkpoint(b) ==
    Len(branches[b].messages)
        - checkpoints[branches[b].checkpoint_id].message_index

\* C21: for every branch B of checkpoint C, C.message_index is at most the
\* length of B's messages, so the count list_branches reports for B is never
\* negative; checked in the states where every turn started was completed.
C21_IndexWithinBranch ==
    (pc.at = "idle" /\ AllTurnsCompleted)
        => \A b \in DOMAIN branches : messages_after_checkpoint(b) >= 0

(* --------------------- claims: failing summarization ------------------ *)
\* the summaries a summarization call can return
ReturnedSummaries == {generate_summary(t) : t \in SummaryTexts}

\* C22: when a summarization call fails inside compress, compress returns
\* no submission and the error reaches the caller, and the summaries are the
\* earlier ones followed by the answers of the calls that succeeded, one per
\* successful call and nothing else.
C22_SummaryErrorSurfaces ==
    [][(last'.op \in {"compress", "compress_error"} /\ last'.arg > 0)
          => /\ last'.op = "compress_error"
             /\ ~last'.ok
             /\ pc'.at = "crashed"
             /\ submission' = submission
             /\ Len(summaries') = Len(summaries) + last'.calls - 1
             /\ SubSeq(summaries', 1, Len(summaries)) = summaries
             /\ \A i \in Len(summaries) + 1 .. Len(summaries') :
                    summaries'[i] \in ReturnedSummaries]_vars

\* a summarization call failed in a compressor that held a summary of an
\* earlier call
C22_Witness ==
    /\ last.op = "compress_error"
    /\ last.calls = 1
    /\ summaries # <<>>
    /\ original_tokens > 0

(* ----------------------- claims: compression stats -------------------- *)
\* C23: after compress returned its input unchanged the reported statistics
\* have original = compressed and saved = 0, whatever the compressor held
\* before; after it compressed they have saved = original - compressed,
\* original the token count of the transcript and compressed the token
\* count of the submission.
C23_StatsMatchSubmission ==
    last.op = "compress"
        => LET st == get_stats(Stats)
           IN  IF ConversationCount <= recent_window_size
               THEN st.original = st.compressed /\ st.saved = 0
               ELSE /\ st.saved = st.original - st.compressed
                    /\ st.original = count_messages(messages)
                    /\ st.compressed = count_messages(submission)

(* -------------------------- claims: token count ----------------------- *)
\* the tokens of the contents of the messages ms[1..n]
RECURSIVE ContentTokens(_, _)
ContentTokens(ms, n) ==
    IF n = 0 THEN 0 ELSE ContentTokens(ms, n - 1) + count_message(ms[n].content)

\* C24: count_messages(ms) is the sum of the token counts of the contents
\* plus 4 for every message plus 2, whatever was counted before; for the
\* empty list it is 2.
C24_CountAll ==
    last.op = "count_messages"
        => /\ last.arg = ContentTokens(messages, Len(messages))
                             + 4 * Len(messages) + 2
           /\ messages = <<>> => last.arg = 2

\* three messages with contents of different lengths were counted
C24_Witness ==
    /\ last.op = "count_messages"
    /\ Len(messages) = 3
    /\ Len(messages[2].content) # Len(messages[3].content)
    /\ last.arg = 14 + Len(messages[1].content) + Len(messages[2].content)
                      + Len(messages[3].content)

(* ----------------------------- claims: reset -------------------------- *)
\* C25: BranchingManager.reset, called directly or through clear_history,
\* leaves the manager without checkpoints, branches and saved counts, with
\* both counters 0 and no current branch, and leaves every stored
\* checkpoint, branch and branch-message row, active flags included, as it
\* was.
C25_ResetKeepsRows ==
    [][last'.op \in {"reset", "clear"}
          => /\ checkpoints' = <<>>
             /\ branches' = <<>>
             /\ branch_saved_count' = <<>>
             /\ checkpoint_counter' = 0
             /\ branch_counter' = 0
             /\ current_branch' = NoBranch
             /\ UNCHANGED <<db_checkpoints, db_branches, db_branch_messages>>]_vars

\* the manager was reset while the session had a stored checkpoint, a stored
\* active branch and a stored branch message
C25_Witness ==
    /\ last.op \in {"reset", "clear"}
    /\ db_checkpoints # <<>>
    /\ ActiveBranchRows(session_id) # {}
    /\ db_branch_messages # <<>>
    /\ checkpoints = <<>>

(* ----------------------- claims: checkpoint ids ----------------------- *)
\* the checkpoint identifiers stored for session sid
SessionCheckpointIds(tbl, sid) ==
    {tbl[i].checkpoint_id : i \in {j \in DOMAIN tbl : tbl[j].session_id = sid}}

\* C26: create_checkpoint records message_index = len(transcript), stores
\* the checkpoint at once, and returns an identifier that differs from every
\* checkpoint identifier issued for the session before and whose counter
\* component is greater than theirs, over any sequence of create_checkpoint,
\* reset and load_from_db.
C26_CheckpointIdsGrow ==
    [][last'.op = "checkpoint"
          => LET id == last'.arg
                 earlier == SessionCheckpointIds(db_checkpoints, session_id)
             IN  /\ checkpoints'[id].message_index = Len(messages)
                 /\ db_checkpoints' =
                        Append(db_checkpoints,
                               [session_id |-> session_id, checkpoint_id |-> id,
                                message_index |-> Len(messages)])
                 /\ id \notin earlier
                 /\ \A e \in earlier : CounterOf(id) > CounterOf(e)]_vars

(* ------------------------- claims: facts prompt ----------------------- *)
\* the categories of the store that hold a value
NonEmptyCategories(store) == {e[1] : e \in {x \in store.items : x[3] # ""}}

\* the categories that have a bullet in the text
BulletCategories(text) ==
    {text[i + 1] : i \in {j \in 1 .. Len(text) - 1 : text[j] = "-"}}

\* the bullets of the text
Bullets(text) == {i \in 1 .. Len(text) : text[i] = "-"}

\* C27: get_facts_prompt returns the empty text when no category of the
\* store holds a value, and otherwise a text with one bullet for every
\* category that holds a value and none for the others.
C27_FactsPrompt ==
    (last.op = "get_facts_prompt" /\ last.ok)
        => LET text == submission[1].content
           IN  IF NonEmptyCategories(facts) = {}
               THEN text = <<>>
               ELSE /\ BulletCategories(text) = NonEmptyCategories(facts)
                    /\ Cardinality(Bullets(text))
                           = Cardinality(NonEmptyCategories(facts))

\* C28: extract_facts on a transcript without a non-system message issues
\* no call and leaves the store as it was; on a transcript with a
\* non-system message, with or without a system message before it, it
\* issues exactly one call.
C28_ExtractionCalls ==
    [][last'.op = "extract_facts"
          => IF SelectSeqRole(messages, FALSE) = <<>>
             THEN last'.calls = 0 /\ facts' = facts
             ELSE last'.calls = 1]_vars

\* C29: the Fact Store is a mapping from the categories goal, constraints,
\* preferences, decisions, agreements to values, whatever parseable answer
\* the extraction call got.
C29_StoreIsMapping ==
    /\ facts.kind = "dict"
    /\ \A e \in facts.items :
           e[1] \in {Categories[i] : i \in DOMAIN Categories}

(* ------------------------ claims: failing writes ---------------------- *)
\* C30: when a branch-message write of update_current_branch fails, the
\* failure reaches the caller, the messages of the current branch are the
\* live transcript, and the saved count of the branch is the number of
\* branch-message rows stored for it.
C30_WriteErrorKeepsCount ==
    (last.op = "update" /\ ~last.ok)
        => /\ pc.at = "crashed"
           /\ branches[current_branch].messages = messages
           /\ GetOrZero(branch_saved_count, current_branch)
                  = Len(BranchRows(db_branch_messages, current_branch))

(* ----------------------- claims: group of experts --------------------- *)
\* the sum of field f over the usage the experts of set S returned in the
\* turns from number i on
RECURSIVE UsageSum(_, _, _, _)
UsageSum(calls, f, i, S) ==
    IF i > Len(calls) THEN 0
    ELSE IF S = {} THEN UsageSum(calls, f, i + 1, EXPERTS)
    ELSE LET e == CHOOSE x \in S : TRUE
         IN  (IF calls[i][e] = NoUsage THEN 0 ELSE calls[i][e][f])
                 + UsageSum(calls, f, i, S \ {e})

\* C31: in the group-of-experts mode, whatever the order in which the
\* expert calls finish, a response is shown only for an expert whose call
\* has returned and is that call's chunks; when the turn ends every expert
\* was shown exactly once in it and the tracker's totals are the sums of the
\* usage of all expert calls.
C31_ExpertsAggregated ==
    [][/\ console' # console
           => \E e \in EXPERTS :
                  /\ futures[e].state = "finished"
                  /\ console' = Append(console, [expert |-> e,
                                                 chunks |-> futures[e].chunks])
       /\ last'.op = "experts_done"
           => /\ Len(console') = Cardinality(EXPERTS) * turn_count'
              /\ \A e \in EXPERTS :
                     Cardinality({i \in Len(console') - Cardinality(EXPERTS) + 1
                                          .. Len(console') :
                                     console'[i].expert = e}) = 1
              /\ tracker'.total_tokens = UsageSum(expert_calls', "total_tokens", 1, EXPERTS)
              /\ tracker'.prompt_tokens = UsageSum(expert_calls', "prompt_tokens", 1, EXPERTS)
              /\ tracker'.completion_tokens =
                     UsageSum(expert_calls', "completion_tokens", 1, EXPERTS)]_vars

\* a turn ended in which the expert submitted last was shown first and two
\* of the calls reported usage
C31_Witness ==
    /\ last.op = "experts_done"
    /\ console[1].expert = "Scientist"
    /\ tracker.total_tokens = 8

(* ------------------------ claims: create_branch ----------------------- *)
\* C32: a successful create_branch(c, name, base) adds one branch whose
\* messages are base[0:c.message_index], sets its saved count to 0, stores
\* its row with the active flag off, and leaves the current-branch pointer,
\* the stored rows of the other branches, the checkpoints and the other
\* branches as they were.
C32_CreateBranch ==
    [][(last'.op = "branch_create" /\ last'.arg \in DOMAIN checkpoints
            /\ pc'.at # "crashed")
          => \E id \in DOMAIN branches' :
                 LET idx == checkpoints[last'.arg].message_index
                     n == IF idx < Len(messages) THEN idx ELSE Len(messages)
                 IN  /\ id \notin DOMAIN branches
                     /\ DOMAIN branches' = DOMAIN branches \cup {id}
                     /\ branches'[id].checkpoint_id = last'.arg
                     /\ branches'[id].messages = [i \in 1 .. n |-> messages[i]]
                     /\ branch_saved_count'[id] = 0
                     /\ db_branches' =
                            Append(db_branches,
                                   [session_id |-> session_id, branch_id |-> id,
                                    checkpoint_id |-> last'.arg,
                                    is_active |-> FALSE])
                     /\ current_branch' = current_branch
                     /\ checkpoints' = checkpoints
                     /\ \A b \in DOMAIN branches : branches'[b] = branches[b]]_vars

\* a second branch was created while the first was current and the
\* transcript had grown past the checkpoint
C32_Witness ==
    /\ last.op = "branch_create" /\ last.ok
    /\ current_branch # NoBranch
    /\ Cardinality(DOMAIN branches) = 2
    /\ Len(messages) > checkpoints[last.arg].message_index

(* ---------------------- claims: the turn in a branch ------------------ *)
\* C33: when a turn taken while branch B is current has completed, both
\* messages of the turn are among B's messages and among B's stored branch
\* messages, which are the transcript from the checkpoint's index onward.
C33_TurnStoredInBranch ==
    [][(last'.op = "turn_finish" /\ last'.ok /\ current_branch # NoBranch)
          => LET b == current_branch
                 idx == checkpoints[branches[b].checkpoint_id].message_index
             IN  /\ branches'[b].messages = messages'
                 /\ RowMessages(BranchRows(db_branch_messages', b))
                        = SubSeq(messages', idx + 1, Len(messages'))]_vars

(* ------------------------ claims: one strategy ------------------------ *)
\* C34: whatever the strategy and the compression flag, a turn changes the
\* side state of the agent's own strategy only: the summaries change only
\* under the sliding-window strategy with compression on, the Fact Store only
\* under sticky facts, the branches and their stored messages only under
\* branching; and a completed turn has appended the user message and then one
\* assistant message to the transcript the turn started from.
C34_OneStrategy ==
    [][/\ last'.op \in {"turn_start", "reply_error", "turn_finish"}
           => /\ (strategy # "sliding_window" \/ ~compression_enabled)
                     => UNCHANGED <<summaries, original_tokens, compressed_tokens,
                                    tokens_saved, summarize_calls>>
              /\ strategy # "sticky_facts" => UNCHANGED <<facts, db_sticky_facts>>
              /\ strategy # "branching"
                     => UNCHANGED <<branches, branch_saved_count, db_branches,
                                    db_branch_messages>>
       /\ (last'.op = "turn_finish" /\ last'.ok)
           => /\ Len(messages') = Len(snap.messages) + 2
              /\ SubSeq(messages', 1, Len(snap.messages)) = snap.messages
              /\ messages'[Len(messages') - 1] = Msg("user", pc.user_input)
              /\ messages'[Len(messages')].role = "assistant"]_vars

\* a turn was completed under the sticky-facts strategy with compression
\* switched on and a transcript longer than the recent window
C34_Witness ==
    /\ last.op = "turn_finish" /\ last.ok
    /\ strategy = "sticky_facts"
    /\ compression_enabled
    /\ Len(messages) > DefaultWindow + 1
    /\ summaries = <<>>

(* ------------------------- claims: the submission --------------------- *)
\* the messages of a, in order, are among the messages of b in that order
RECURSIVE IsSubsequence(_, _)
IsSubsequence(a, b) ==
    IF a = <<>> THEN TRUE
    ELSE IF b = <<>> THEN FALSE
    ELSE IF Head(a) = Head(b) THEN IsSubsequence(Tail(a), Tail(b))
    ELSE IsSubsequence(a, Tail(b))

\* C35: under every strategy the submission built for a turn ends with the
\* turn's user message and its non-system messages are transcript messages
\* in transcript order; under sticky facts it is at most one system message
\* followed by at most 6 messages, the last non-system messages of the
\* transcript.
C35_SubmissionFromTranscript ==
    (last.op = "reply_error" \/ (last.op = "turn_start" /\ last.ok))
        => LET conv == SelectSeqRole(messages, FALSE)
               sent == SelectSeqRole(submission, FALSE)
               sys == SelectSeqRole(submission, TRUE)
           IN  /\ submission # <<>>
               /\ submission[Len(submission)] = Msg("user", pc.user_input)
               /\ IsSubsequence(sent, conv)
               /\ strategy = "sticky_facts"
                      => /\ Len(sys) <= 1
                         /\ submission = sys \o sent
                         /\ Len(sent) <= 6
                         /\ sent = SubSeq(conv, Len(conv) - Len(sent) + 1, Len(conv))

\* a sticky-facts submission of one system message and 6 messages of a
\* longer transcript
C35_Witness ==
    /\ last.op = "turn_start" /\ last.ok
    /\ strategy = "sticky_facts"
    /\ Len(submission) = 7
    /\ Len(messages) > 8

(* ------------------------ claims: summary coverage -------------------- *)
\* the messages that were in the input of a summarization call
SummarizedMessages ==
    UNION {{summarize_calls[i][k] : k \in DOMAIN summarize_calls[i]} :
              i \in DOMAIN summarize_calls}

\* C36: after a compress call that compresses, on a compressor whose
\* summaries all come from its own calls, every message of the old prefix
\* was in the input of a summarization call, except at most the last
\* summary_batch_size - 1 messages of the prefix.
C36_SummaryCoverage ==
    LET conv == SelectSeqRole(messages, FALSE)
        old == old_messages(conv, recent_window_size)
    IN  (last.op = "compress" /\ ~IsShort(conv, recent_window_size)
             /\ Len(summaries) = Len(summarize_calls))
            => \A i \in 1 .. Len(old) - (summary_batch_size - 1) :
                   old[i] \in SummarizedMessages

(* ------------------------ claims: session isolation ------------------- *)
\* the messages stored for session sid, in the transcript or in a branch
StoredMessagesOf(sid) ==
    {Msg(db_messages[i].role, db_messages[i].content) :
        i \in {j \in DOMAIN db_messages : db_messages[j].session_id = sid}}
    \cup {Msg(db_branch_messages[i].role, db_branch_messages[i].content) :
            i \in {j \in DOMAIN db_branch_messages :
                     db_branch_messages[j].branch_id
                         \in SessionBranchIds(db_branches, sid)}}

\* C37: after the agent switched to another session, by create_session or by
\* load_session, the transcript holds only stored messages of that session,
\* there are no summaries, the Fact Store holds only stored facts of that
\* session and the checkpoints and branches are stored ones of that session.
C37_SessionIsolation ==
    [][(last'.op \in {"create_session", "load_session"} /\ last'.ok
            /\ session_id' # session_id)
          => /\ \A i \in DOMAIN messages' :
                    messages'[i].role # "system"
                        => messages'[i] \in StoredMessagesOf(session_id')
             /\ summaries' = <<>>
             /\ facts'.kind = "dict"
             /\ facts'.items \subseteq load_sticky_facts(db_sticky_facts', session_id').items
             /\ DOMAIN checkpoints'
                    \subseteq SessionCheckpointIds(db_checkpoints', session_id')
             /\ DOMAIN branches'
                    \subseteq SessionBranchIds(db_branches', session_id')]_vars

(* --------------------- claims: the current branch --------------------- *)
\* C38: the current-branch pointer agrees with the store: it names branch b
\* exactly when the stored row of b is the session's active row, and it is
\* none exactly when no stored branch of the session is active.
C38_PointerAgreesWithStore ==
    pc.at = "idle"
        => {db_branches[i].branch_id : i \in ActiveBranchRows(session_id)}
               = (IF current_branch = NoBranch THEN {} ELSE {current_branch})

\* C39: every in-memory branch references a checkpoint that is present in
\* the in-memory checkpoint map, and the current-branch pointer is none or
\* the id of a present branch, whatever sequence of createCheckpoint,
\* createBranch, switchBranch, reset and loadFromDb has run.
C39_BranchTreeIntegrity ==
    /\ \A b \in DOMAIN branches : branches[b].checkpoint_id \in DOMAIN checkpoints
    /\ current_branch = NoBranch \/ current_branch \in DOMAIN branches

\* a reload has rebuilt a branch on its checkpoint and made it current
C39_Witness ==
    /\ last.op = "reload"
    /\ current_branch \in DOMAIN branches
    /\ branches[current_branch].checkpoint_id \in DOMAIN checkpoints

(* ------------------------ claims: fact persistence -------------------- *)
\* the same fact rows in the same order, whatever the time of the save
SameFactRows(a, b) ==
    /\ Len(a) = Len(b)
    /\ \A i \in DOMAIN a :
          /\ a[i].session_id = b[i].session_id
          /\ a[i].category = b[i].category
          /\ a[i].key = b[i].key
          /\ a[i].value = b[i].value

\* the strings a Fact Store holds: its str values and the values of its
\* nested dicts
StoreLeaves(F) == {e \in StoreEntries(F) : e[2] # "dict"}

\* C40: after save_sticky_facts(F) for a session, with F's values non-empty
\* strings or non-empty nested dicts with non-empty keys, load_sticky_facts
\* returns F; the session holds one row per string of F and nothing from
\* earlier saves, saving F again leaves the same fact rows, and the rows of
\* other sessions are unchanged.
C40_FactRoundTrip ==
    [][last'.op = "save_sticky_facts"
          => LET sid == last'.arg
                 F == facts'
                 loaded == load_sticky_fact_rows(db_sticky_facts', sid)
             IN  /\ OtherRows(db_sticky_facts', sid) = OtherRows(db_sticky_facts, sid)
                 /\ \A now \in {Epoch, Epoch + 1} :
                        \E again \in {save_sticky_fact_rows(db_sticky_facts', sid, F, now)} :
                            SameFactRows(again, db_sticky_facts')
                 /\ ValidStore(F)
                        => /\ loaded.ok
                           /\ PyEq(loaded.facts, F)
                           /\ Len(SessionRows(db_sticky_facts', sid))
                                  = Cardinality(StoreLeaves(F))]_vars

\* a store with a string and a nested dict was saved over another session's
\* rows and loads back as itself
C40_Witness ==
    /\ last.op = "save_sticky_facts"
    /\ last.arg = FirstSession
    /\ ValidStore(facts)
    /\ \E i, j \in DOMAIN facts : facts[i][2].kind = "str" /\ facts[j][2].kind = "dict"
    /\ OtherRows(db_sticky_facts, FirstSession) # <<>>
    /\ PyEq(load_sticky_fact_rows(db_sticky_facts, FirstSession).facts, facts)

====
